---- MODULE Spec2Model ----
(***************************************************************************)
(* Secretariat: availability resolution and booking commit.                *)
(*                                                                         *)
(* Texts (clock values, dates) are sequences of one-character strings so   *)
(* that parsing and formatting are computed, not assumed.  A date is its   *)
(* proleptic Gregorian ordinal (date.toordinal()); a local naive datetime  *)
(* is ordinal * 1440 + minute of the day.                                  *)
(***************************************************************************)
EXTENDS Integers, Sequences, FiniteSets, TLC

(* ------------------------------------------------------------------ *)
(* Texts                                                              *)
(* ------------------------------------------------------------------ *)

\* Python's None for a text-valued form field or argument.
None == <<"None">>

\* Python's None for an identifier-valued form field.
NoneId == "None"

Digits == {"0", "1", "2", "3", "4", "5", "6", "7", "8", "9"}

DigitChars == <<"0", "1", "2", "3", "4", "5", "6", "7", "8", "9">>

DigitVal(c) == (CHOOSE i \in 1..10 : DigitChars[i] = c) - 1

DigitChar(n) == DigitChars[n + 1]

\* The character of text s at position i, or "" past the end.
At(s, i) == IF i >= 1 /\ i <= Len(s) THEN s[i] ELSE ""

IsDigit(c) == c \in Digits

(* ------------------------------------------------------------------ *)
(* Clock and date utilities                                           *)
(* ------------------------------------------------------------------ *)

MinutesPerDay == 1440

ParseFail == [ok |-> FALSE, val |-> 0]

\* Width of the %H field at the head of s: the alternatives 2[0-3], [0-1]\d,
\* \d in that order, the chosen one being the first that ":" can follow.
HourWidth(s) ==
    LET two == /\ IsDigit(At(s, 1)) /\ IsDigit(At(s, 2))
               /\ \/ At(s, 1) = "2" /\ DigitVal(At(s, 2)) <= 3
                  \/ At(s, 1) \in {"0", "1"}
    IN  IF two /\ At(s, 3) = ":" THEN 2
        ELSE IF IsDigit(At(s, 1)) /\ At(s, 2) = ":" THEN 1
        ELSE 0

\* Width of the %M field starting at position p: [0-5]\d, then \d.
MinuteWidth(s, p) ==
    IF IsDigit(At(s, p)) /\ DigitVal(At(s, p)) <= 5 /\ IsDigit(At(s, p + 1))
    THEN 2
    ELSE IF IsDigit(At(s, p)) THEN 1
    ELSE 0

\* The number written by the w digits of s from position p.
NumAt(s, p, w) ==
    IF w = 1 THEN DigitVal(s[p])
    ELSE IF w = 2 THEN DigitVal(s[p]) * 10 + DigitVal(s[p + 1])
    ELSE DigitVal(s[p]) * 1000 + DigitVal(s[p + 1]) * 100
         + DigitVal(s[p + 2]) * 10 + DigitVal(s[p + 3])

\* datetime.strptime(raw_clock, "%H:%M").time() as minutes after midnight;
\* ok = FALSE stands for ValueError.
_parse_clock(raw_clock) ==
    LET hw == HourWidth(raw_clock)
        mp == hw + 2
        mw == MinuteWidth(raw_clock, mp)
    IN  IF raw_clock = None \/ hw = 0 \/ mw = 0 THEN ParseFail
        ELSE IF mp + mw - 1 # Len(raw_clock) THEN ParseFail
        ELSE [ok |-> TRUE,
              val |-> NumAt(raw_clock, 1, hw) * 60 + NumAt(raw_clock, mp, mw)]

\* strftime("%H:%M") of a minute of the day.
FormatHHMM(minute) ==
    LET h == (minute \div 60) % 24
        m == minute % 60
    IN  <<DigitChar(h \div 10), DigitChar(h % 10), ":",
          DigitChar(m \div 10), DigitChar(m % 10)>>

\* strftime("%I:%M %p").lstrip("0"): hour on the 12-hour clock without a
\* leading zero, two-digit minute, AM or PM.
_datetime_clock_label(minute) ==
    LET h  == (minute \div 60) % 24
        m  == minute % 60
        h12 == IF h % 12 = 0 THEN 12 ELSE h % 12
        hh == IF h12 >= 10 THEN <<DigitChar(h12 \div 10), DigitChar(h12 % 10)>>
              ELSE <<DigitChar(h12)>>
    IN  hh \o <<":", DigitChar(m \div 10), DigitChar(m % 10), " ">>
           \o (IF h < 12 THEN <<"A", "M">> ELSE <<"P", "M">>)

IsLeap(y) == y % 4 = 0 /\ (y % 100 # 0 \/ y % 400 = 0)

DaysInMonth(y, m) ==
    IF m = 2 THEN (IF IsLeap(y) THEN 29 ELSE 28)
    ELSE IF m \in {4, 6, 9, 11} THEN 30 ELSE 31

DaysBeforeYear(y) ==
    (y - 1) * 365 + (y - 1) \div 4 - (y - 1) \div 100 + (y - 1) \div 400

RECURSIVE DaysBeforeMonth(_, _)
DaysBeforeMonth(y, m) ==
    IF m = 1 THEN 0 ELSE DaysBeforeMonth(y, m - 1) + DaysInMonth(y, m - 1)

\* date(y, m, d).toordinal()
Ordinal(y, m, d) == DaysBeforeYear(y) + DaysBeforeMonth(y, m) + d

\* date.weekday(): Monday is 0.
Weekday(day) == (day + 6) % 7

\* Width of the %m field at position p: 1[0-2], 0[1-9], [1-9] in that order,
\* the chosen one being the first that "-" can follow.
MonthWidth(s, p) ==
    LET two == \/ At(s, p) = "1" /\ At(s, p + 1) \in {"0", "1", "2"}
               \/ At(s, p) = "0" /\ IsDigit(At(s, p + 1)) /\ At(s, p + 1) # "0"
    IN  IF two /\ At(s, p + 2) = "-" THEN 2
        ELSE IF IsDigit(At(s, p)) /\ At(s, p) # "0" /\ At(s, p + 1) = "-" THEN 1
        ELSE 0

\* Width of the %d field at position p: 3[01], [12]\d, 0[1-9], [1-9].
DayWidth(s, p) ==
    IF \/ At(s, p) = "3" /\ At(s, p + 1) \in {"0", "1"}
       \/ At(s, p) \in {"1", "2"} /\ IsDigit(At(s, p + 1))
       \/ At(s, p) = "0" /\ IsDigit(At(s, p + 1)) /\ At(s, p + 1) # "0"
    THEN 2
    ELSE IF IsDigit(At(s, p)) /\ At(s, p) # "0" THEN 1
    ELSE 0

\* datetime.strptime(raw_date, "%Y-%m-%d").date() as an ordinal; ok = FALSE
\* stands for None (absent, empty or unparseable text).
_parse_iso_date_or_none(raw_date) ==
    IF raw_date = None \/ raw_date = <<>> THEN ParseFail
    ELSE IF ~(\A i \in 1..4 : IsDigit(At(raw_date, i))) \/ At(raw_date, 5) # "-"
    THEN ParseFail
    ELSE LET mw == MonthWidth(raw_date, 6)
             dp == 6 + mw + 1
             dw == DayWidth(raw_date, dp)
         IN  IF mw = 0 \/ dw = 0 \/ dp + dw - 1 # Len(raw_date) THEN ParseFail
             ELSE LET y == NumAt(raw_date, 1, 4)
                      m == NumAt(raw_date, 6, mw)
                      d == NumAt(raw_date, dp, dw)
                  IN  IF y < 1 \/ d > DaysInMonth(y, m) THEN ParseFail
                      ELSE [ok |-> TRUE, val |-> Ordinal(y, m, d)]

\* Falls back to date.today().
_parse_iso_date(raw_date, todayValue) ==
    LET parsed_date == _parse_iso_date_or_none(raw_date)
    IN  IF ~parsed_date.ok THEN todayValue ELSE parsed_date.val

_week_start_for(raw_date) == raw_date - Weekday(raw_date)

\* datetime.combine(day, time) on the local naive timeline.
Combine(day, minute) == day * MinutesPerDay + minute

(* ------------------------------------------------------------------ *)
(* Catalog                                                            *)
(* ------------------------------------------------------------------ *)

PULLMAN_BUSINESSES ==
    <<
      [id |-> "crimson-cuts", name |-> "Crimson Cuts Barbershop",
       location |-> "Downtown Pullman",
       open_weekdays |-> {0, 1, 2, 3, 4, 5},
       services |-> <<
          [id |-> "fade-cut", name |-> "Fade + Style", duration |-> 30,
           time_range |-> [start |-> <<"0", "9", ":", "0", "0">>, end |-> <<"1", "7", ":", "0", "0">>]],
          [id |-> "haircut-beard", name |-> "Haircut + Beard Trim", duration |-> 45,
           time_range |-> [start |-> <<"1", "0", ":", "0", "0">>, end |-> <<"1", "8", ":", "0", "0">>]],
          [id |-> "full-groom", name |-> "Full Grooming Session", duration |-> 60,
           time_range |-> [start |-> <<"1", "1", ":", "0", "0">>, end |-> <<"1", "8", ":", "0", "0">>]]>>],
      [id |-> "palouse-pt", name |-> "Palouse Physical Therapy",
       location |-> "Grand Avenue, Pullman",
       open_weekdays |-> {0, 1, 2, 3, 4},
       services |-> <<
          [id |-> "initial-eval", name |-> "Initial Evaluation", duration |-> 60,
           time_range |-> [start |-> <<"0", "8", ":", "3", "0">>, end |-> <<"1", "6", ":", "3", "0">>]],
          [id |-> "follow-up", name |-> "Follow-up Session", duration |-> 45,
           time_range |-> [start |-> <<"0", "9", ":", "0", "0">>, end |-> <<"1", "7", ":", "0", "0">>]],
          [id |-> "mobility-reset", name |-> "Mobility Reset", duration |-> 30,
           time_range |-> [start |-> <<"1", "0", ":", "0", "0">>, end |-> <<"1", "5", ":", "3", "0">>]]>>],
      [id |-> "sweet-serenity", name |-> "Sweet Serenity Spa",
       location |-> "Main Street, Pullman",
       open_weekdays |-> {1, 2, 3, 4, 5, 6},
       services |-> <<
          [id |-> "express-facial", name |-> "Express Facial", duration |-> 30,
           time_range |-> [start |-> <<"1", "0", ":", "0", "0">>, end |-> <<"1", "8", ":", "0", "0">>]],
          [id |-> "custom-facial", name |-> "Custom Facial", duration |-> 60,
           time_range |-> [start |-> <<"1", "0", ":", "0", "0">>, end |-> <<"1", "7", ":", "0", "0">>]],
          [id |-> "swedish-massage", name |-> "Swedish Massage", duration |-> 60,
           time_range |-> [start |-> <<"1", "1", ":", "0", "0">>, end |-> <<"1", "9", ":", "0", "0">>]]>>]
    >>

\* BUSINESS_BUSY_TEMPLATES.get(business_id, {}).get(weekday, [])
BUSINESS_BUSY_TEMPLATES(business_id, weekday) ==
    CASE business_id = "crimson-cuts" /\ weekday = 0 ->
           <<<<<<"0", "9", ":", "4", "5">>, <<"1", "0", ":", "3", "0">>>>, <<<<"1", "2", ":", "0", "0">>, <<"1", "3", ":", "0", "0">>>>, <<<<"1", "5", ":", "3", "0">>, <<"1", "6", ":", "3", "0">>>>>>
      [] business_id = "crimson-cuts" /\ weekday = 1 ->
           <<<<<<"1", "0", ":", "1", "5">>, <<"1", "1", ":", "0", "0">>>>, <<<<"1", "3", ":", "3", "0">>, <<"1", "4", ":", "3", "0">>>>, <<<<"1", "6", ":", "0", "0">>, <<"1", "6", ":", "4", "5">>>>>>
      [] business_id = "crimson-cuts" /\ weekday = 2 ->
           <<<<<<"0", "9", ":", "3", "0">>, <<"1", "0", ":", "1", "5">>>>, <<<<"1", "2", ":", "4", "5">>, <<"1", "3", ":", "3", "0">>>>, <<<<"1", "5", ":", "0", "0">>, <<"1", "6", ":", "0", "0">>>>>>
      [] business_id = "crimson-cuts" /\ weekday = 3 ->
           <<<<<<"1", "0", ":", "0", "0">>, <<"1", "1", ":", "3", "0">>>>, <<<<"1", "4", ":", "1", "5">>, <<"1", "5", ":", "0", "0">>>>, <<<<"1", "7", ":", "0", "0">>, <<"1", "7", ":", "4", "5">>>>>>
      [] business_id = "crimson-cuts" /\ weekday = 4 ->
           <<<<<<"0", "9", ":", "0", "0">>, <<"0", "9", ":", "4", "5">>>>, <<<<"1", "2", ":", "1", "5">>, <<"1", "3", ":", "1", "5">>>>, <<<<"1", "5", ":", "4", "5">>, <<"1", "6", ":", "4", "5">>>>>>
      [] business_id = "crimson-cuts" /\ weekday = 5 ->
           <<<<<<"1", "0", ":", "3", "0">>, <<"1", "1", ":", "3", "0">>>>, <<<<"1", "3", ":", "0", "0">>, <<"1", "4", ":", "0", "0">>>>, <<<<"1", "6", ":", "1", "5">>, <<"1", "7", ":", "1", "5">>>>>>
      [] business_id = "palouse-pt" /\ weekday = 0 ->
           <<<<<<"0", "9", ":", "0", "0">>, <<"1", "0", ":", "3", "0">>>>, <<<<"1", "1", ":", "4", "5">>, <<"1", "2", ":", "4", "5">>>>, <<<<"1", "4", ":", "3", "0">>, <<"1", "5", ":", "3", "0">>>>>>
      [] business_id = "palouse-pt" /\ weekday = 1 ->
           <<<<<<"0", "8", ":", "3", "0">>, <<"0", "9", ":", "3", "0">>>>, <<<<"1", "1", ":", "0", "0">>, <<"1", "2", ":", "0", "0">>>>, <<<<"1", "5", ":", "0", "0">>, <<"1", "6", ":", "0", "0">>>>>>
      [] business_id = "palouse-pt" /\ weekday = 2 ->
           <<<<<<"0", "9", ":", "1", "5">>, <<"1", "0", ":", "0", "0">>>>, <<<<"1", "2", ":", "3", "0">>, <<"1", "3", ":", "3", "0">>>>, <<<<"1", "4", ":", "4", "5">>, <<"1", "5", ":", "4", "5">>>>>>
      [] business_id = "palouse-pt" /\ weekday = 3 ->
           <<<<<<"0", "8", ":", "4", "5">>, <<"0", "9", ":", "4", "5">>>>, <<<<"1", "1", ":", "3", "0">>, <<"1", "2", ":", "3", "0">>>>, <<<<"1", "3", ":", "4", "5">>, <<"1", "5", ":", "1", "5">>>>>>
      [] business_id = "palouse-pt" /\ weekday = 4 ->
           <<<<<<"0", "9", ":", "3", "0">>, <<"1", "0", ":", "1", "5">>>>, <<<<"1", "2", ":", "0", "0">>, <<"1", "3", ":", "0", "0">>>>, <<<<"1", "5", ":", "1", "5">>, <<"1", "6", ":", "1", "5">>>>>>
      [] business_id = "sweet-serenity" /\ weekday = 1 ->
           <<<<<<"1", "0", ":", "3", "0">>, <<"1", "1", ":", "3", "0">>>>, <<<<"1", "3", ":", "0", "0">>, <<"1", "4", ":", "0", "0">>>>, <<<<"1", "6", ":", "0", "0">>, <<"1", "7", ":", "0", "0">>>>>>
      [] business_id = "sweet-serenity" /\ weekday = 2 ->
           <<<<<<"1", "0", ":", "0", "0">>, <<"1", "1", ":", "0", "0">>>>, <<<<"1", "2", ":", "4", "5">>, <<"1", "3", ":", "4", "5">>>>, <<<<"1", "5", ":", "3", "0">>, <<"1", "6", ":", "3", "0">>>>>>
      [] business_id = "sweet-serenity" /\ weekday = 3 ->
           <<<<<<"1", "1", ":", "1", "5">>, <<"1", "2", ":", "1", "5">>>>, <<<<"1", "4", ":", "0", "0">>, <<"1", "5", ":", "0", "0">>>>, <<<<"1", "7", ":", "0", "0">>, <<"1", "8", ":", "0", "0">>>>>>
      [] business_id = "sweet-serenity" /\ weekday = 4 ->
           <<<<<<"1", "0", ":", "4", "5">>, <<"1", "1", ":", "4", "5">>>>, <<<<"1", "3", ":", "1", "5">>, <<"1", "4", ":", "1", "5">>>>, <<<<"1", "6", ":", "1", "5">>, <<"1", "7", ":", "1", "5">>>>>>
      [] business_id = "sweet-serenity" /\ weekday = 5 ->
           <<<<<<"1", "0", ":", "3", "0">>, <<"1", "1", ":", "3", "0">>>>, <<<<"1", "4", ":", "3", "0">>, <<"1", "5", ":", "3", "0">>>>, <<<<"1", "7", ":", "3", "0">>, <<"1", "8", ":", "3", "0">>>>>>
      [] business_id = "sweet-serenity" /\ weekday = 6 ->
           <<<<<<"1", "1", ":", "0", "0">>, <<"1", "2", ":", "0", "0">>>>, <<<<"1", "3", ":", "3", "0">>, <<"1", "4", ":", "3", "0">>>>, <<<<"1", "6", ":", "3", "0">>, <<"1", "7", ":", "3", "0">>>>>>
      [] OTHER -> <<>>

SLOT_REASON_LABELS ==
    [available |-> "Available (both free)",
     user_busy |-> "Unavailable - You are busy",
     business_busy |-> "Unavailable - Business is busy",
     both_busy |-> "Unavailable - Both busy"]

\* _slot_reason_label with the labels of user_busy and business_busy exchanged.
_slot_reason_label_swapped(reason) ==
    IF reason = "user_busy" THEN SLOT_REASON_LABELS["business_busy"]
    ELSE IF reason = "business_busy" THEN SLOT_REASON_LABELS["user_busy"]
    ELSE IF reason \in DOMAIN SLOT_REASON_LABELS THEN SLOT_REASON_LABELS[reason]
    ELSE "Unavailable"

_slot_reason_label(reason) ==
    IF reason \in DOMAIN SLOT_REASON_LABELS THEN SLOT_REASON_LABELS[reason]
    ELSE "Unavailable"

\* The first business with the given id, else the first business.
_selected_business(business_id) ==
    LET hits == {i \in 1..Len(PULLMAN_BUSINESSES) :
                    PULLMAN_BUSINESSES[i].id = business_id}
    IN  IF hits # {}
        THEN PULLMAN_BUSINESSES[CHOOSE i \in hits : \A j \in hits : i <= j]
        ELSE PULLMAN_BUSINESSES[1]

\* _selected_business_service looking the id up in the whole catalog.
_selected_business_service_any_business(business, service_id) ==
    LET hits == {<<i, j>> \in (1..Len(PULLMAN_BUSINESSES)) \X (1..3) :
                    PULLMAN_BUSINESSES[i].services[j].id = service_id}
    IN  IF hits # {}
        THEN LET h == CHOOSE x \in hits : TRUE
             IN  PULLMAN_BUSINESSES[h[1]].services[h[2]]
        ELSE business.services[1]

\* The business's first service with the given id, else its first service.
_selected_business_service(business, service_id) ==
    LET hits == {i \in 1..Len(business.services) :
                    business.services[i].id = service_id}
    IN  IF hits # {}
        THEN business.services[CHOOSE i \in hits : \A j \in hits : i <= j]
        ELSE business.services[1]

(* ------------------------------------------------------------------ *)
(* Slot generator                                                     *)
(* ------------------------------------------------------------------ *)

SlotStep == 15

\* Busy periods are pairs <<start, end>> of local naive datetimes.
_mock_busy_periods(business_id, chosen_date) ==
    LET day_templates ==
            BUSINESS_BUSY_TEMPLATES(business_id, Weekday(chosen_date))
    IN  [i \in 1..Len(day_templates) |->
            <<Combine(chosen_date, _parse_clock(day_templates[i][1]).val),
              Combine(chosen_date, _parse_clock(day_templates[i][2]).val)>>]

\* HasConflict testing only whether the slot starts inside a busy period.
HasConflictStartOnly(current, slot_end, periods) ==
    \E i \in 1..Len(periods) :
        current >= periods[i][1] /\ current < periods[i][2]

\* HasConflict missing a slot that starts inside a busy period.
HasConflictFromSlotStart(current, slot_end, periods) ==
    \E i \in 1..Len(periods) :
        current <= periods[i][1] /\ slot_end > periods[i][1]

\* HasConflict counting a period that only touches the slot.
HasConflictTouching(current, slot_end, periods) ==
    \E i \in 1..Len(periods) :
        current <= periods[i][2] /\ slot_end >= periods[i][1]

\* any(current < busy_end and slot_end > busy_start for ... in periods)
HasConflict(current, slot_end, periods) ==
    \E i \in 1..Len(periods) :
        current < periods[i][2] /\ slot_end > periods[i][1]

\* SlotReason testing the user's conflict first.
SlotReasonUserFirst(has_business_conflict, has_user_conflict) ==
    IF has_user_conflict THEN "user_busy"
    ELSE IF has_business_conflict THEN "business_busy"
    ELSE "available"

SlotReason(has_business_conflict, has_user_conflict) ==
    IF has_business_conflict /\ has_user_conflict THEN "both_busy"
    ELSE IF has_business_conflict THEN "business_busy"
    ELSE IF has_user_conflict THEN "user_busy"
    ELSE "available"

\* The slot dictionary appended for the candidate starting at current.
MakeSlot(current, slot_end, business_busy_periods, user_periods) ==
    LET has_business_conflict ==
            HasConflict(current, slot_end, business_busy_periods)
        has_user_conflict == HasConflict(current, slot_end, user_periods)
        reason == SlotReason(has_business_conflict, has_user_conflict)
        bookable == (reason = "available")
    IN  [label |-> <<_datetime_clock_label(current % MinutesPerDay),
                     _datetime_clock_label(slot_end % MinutesPerDay)>>,
         start_time |-> FormatHHMM(current % MinutesPerDay),
         end_time |-> FormatHHMM(slot_end % MinutesPerDay),
         business_free |-> ~has_business_conflict,
         user_free |-> ~has_user_conflict,
         bookable |-> bookable,
         available |-> bookable,
         reason |-> reason,
         status_label |-> _slot_reason_label(reason),
         status |-> _slot_reason_label(reason)]

\* SlotLoop with the loop condition "while current <= closing".
RECURSIVE SlotLoopOvershoot(_, _, _, _, _)
SlotLoopOvershoot(current, closing, duration, business_busy_periods, user_periods) ==
    IF current <= closing
    THEN <<MakeSlot(current, current + duration,
                    business_busy_periods, user_periods)>>
         \o SlotLoopOvershoot(current + SlotStep, closing, duration,
                              business_busy_periods, user_periods)
    ELSE <<>>

\* SlotLoop advancing by the service's duration.
RECURSIVE SlotLoopByDuration(_, _, _, _, _)
SlotLoopByDuration(current, closing, duration, business_busy_periods, user_periods) ==
    IF current + duration <= closing
    THEN <<MakeSlot(current, current + duration,
                    business_busy_periods, user_periods)>>
         \o SlotLoopByDuration(current + duration, closing, duration,
                               business_busy_periods, user_periods)
    ELSE <<>>

\* The loop "while current + duration <= closing".
RECURSIVE SlotLoop(_, _, _, _, _)
SlotLoop(current, closing, duration, business_busy_periods, user_periods) ==
    IF current + duration <= closing
    THEN <<MakeSlot(current, current + duration,
                    business_busy_periods, user_periods)>>
         \o SlotLoop(current + SlotStep, closing, duration,
                     business_busy_periods, user_periods)
    ELSE <<>>

\* _build_business_day_slots without the open_weekdays test.
_build_business_day_slots_any_day(business, service, chosen_date, user_busy_periods) ==
    LET opening ==
            Combine(chosen_date, _parse_clock(service.time_range.start).val)
        closing ==
            Combine(chosen_date, _parse_clock(service.time_range.end).val)
    IN  SlotLoop(opening, closing, service.duration,
                 _mock_busy_periods(business.id, chosen_date),
                 user_busy_periods)

\* _build_business_day_slots reading the weekday as isoweekday (Monday = 1).
_build_business_day_slots_isoweekday(business, service, chosen_date, user_busy_periods) ==
    IF Weekday(chosen_date) + 1 \notin business.open_weekdays THEN <<>>
    ELSE LET opening ==
                 Combine(chosen_date, _parse_clock(service.time_range.start).val)
             closing ==
                 Combine(chosen_date, _parse_clock(service.time_range.end).val)
         IN  SlotLoop(opening, closing, service.duration,
                      _mock_busy_periods(business.id, chosen_date),
                      user_busy_periods)

_build_business_day_slots(business, service, chosen_date, user_busy_periods) ==
    IF Weekday(chosen_date) \notin business.open_weekdays THEN <<>>
    ELSE LET opening ==
                 Combine(chosen_date, _parse_clock(service.time_range.start).val)
             closing ==
                 Combine(chosen_date, _parse_clock(service.time_range.end).val)
         IN  SlotLoop(opening, closing, service.duration,
                      _mock_busy_periods(business.id, chosen_date),
                      user_busy_periods)

\* Orders a set of busy periods into a list (by start, then end).
RECURSIVE PeriodList(_)
PeriodList(S) ==
    IF S = {} THEN <<>>
    ELSE LET p == CHOOSE x \in S :
                     \A y \in S : x[1] < y[1] \/ (x[1] = y[1] /\ x[2] <= y[2])
         IN  <<p>> \o PeriodList(S \ {p})

\* _busy_periods_for_day keeping only the periods that start on the day.
_busy_periods_for_day_started_today(busy_periods, chosen_date) ==
    LET day_start == Combine(chosen_date, 0)
        day_end == day_start + MinutesPerDay
        Min(a, b) == IF a <= b THEN a ELSE b
        keep == SelectSeq(busy_periods,
                    LAMBDA p : p[1] < day_end /\ p[1] >= day_start)
    IN  [i \in 1..Len(keep) |-> <<keep[i][1], Min(day_end, keep[i][2])>>]

\* Keeps the periods overlapping the day, clipped to the day.
_busy_periods_for_day(busy_periods, chosen_date) ==
    LET day_start == Combine(chosen_date, 0)
        day_end == day_start + MinutesPerDay
        Max(a, b) == IF a >= b THEN a ELSE b
        Min(a, b) == IF a <= b THEN a ELSE b
        keep == SelectSeq(busy_periods,
                    LAMBDA p : p[1] < day_end /\ p[2] > day_start)
    IN  [i \in 1..Len(keep) |->
            <<Max(day_start, keep[i][1]), Min(day_end, keep[i][2])>>]

(* ------------------------------------------------------------------ *)
(* Calendar labels                                                    *)
(* ------------------------------------------------------------------ *)

YearRange == 2025..2027

YearOf(day) ==
    CHOOSE y \in YearRange : DaysBeforeYear(y) < day /\ day <= DaysBeforeYear(y + 1)

MonthOf(day) ==
    LET y == YearOf(day)
        n == day - DaysBeforeYear(y)
    IN  CHOOSE m \in 1..12 :
            DaysBeforeMonth(y, m) < n /\ n <= DaysBeforeMonth(y, m) + DaysInMonth(y, m)

DayOfMonth(day) ==
    day - DaysBeforeYear(YearOf(day)) - DaysBeforeMonth(YearOf(day), MonthOf(day))

WeekdayAbbr == <<"Mon", "Tue", "Wed", "Thu", "Fri", "Sat", "Sun">>

MonthAbbr ==
    <<"Jan", "Feb", "Mar", "Apr", "May", "Jun",
      "Jul", "Aug", "Sep", "Oct", "Nov", "Dec">>

\* strftime("%a, %b %d")
DayLabel(day) ==
    <<WeekdayAbbr[Weekday(day) + 1], MonthAbbr[MonthOf(day)],
      DigitChar(DayOfMonth(day) \div 10), DigitChar(DayOfMonth(day) % 10)>>

(* ------------------------------------------------------------------ *)
(* Session credentials                                                *)
(* ------------------------------------------------------------------ *)

\* flask.session has no "credentials" entry.
NoCredentials == "no-credentials"

\* The access token the OAuth callback stores in the session.
AccessToken == "access-token"

_has_google_session_credentials(sess) ==
    sess # NoCredentials /\ sess # ""

\* The Credentials object, or NoCredentials for None.
_init_google_credentials(sess) ==
    IF sess = NoCredentials THEN NoCredentials ELSE sess

(* ------------------------------------------------------------------ *)
(* Calendar provider                                                  *)
(*                                                                    *)
(* An event of the user's primary calendar is a record                *)
(*   [id, shape, start, end, status, transparency, summary]           *)
(* with shape "zoned" (dateTime carrying an offset; start and end are *)
(* UTC minutes), "naive" (dateTime without offset; local minutes),    *)
(* "allday" (start and end are dates) or "none" (no usable timing).   *)
(* ------------------------------------------------------------------ *)

\* America/Los_Angeles in the modelled weeks (standard time), in minutes.
UtcOffset == -480

\* datetime.replace(tzinfo=local_timezone): the instant of a local time.
ToInstant(local) == local - UtcOffset

\* datetime.astimezone(local_timezone).replace(tzinfo=None)
ToLocal(instant) == instant + UtcOffset

_google_busy_interval(event) ==
    IF event.shape = "zoned"
    THEN [ok |-> TRUE, val |-> <<ToLocal(event.start), ToLocal(event.end)>>]
    ELSE IF event.shape = "naive"
    THEN [ok |-> TRUE, val |-> <<event.start, event.end>>]
    ELSE IF event.shape = "allday"
    THEN [ok |-> TRUE, val |-> <<Combine(event.start, 0), Combine(event.end, 0)>>]
    ELSE [ok |-> FALSE, val |-> <<0, 0>>]

\* The instants an event occupies on the provider's side.
EventInstants(event) ==
    IF event.shape = "zoned" THEN <<event.start, event.end>>
    ELSE IF event.shape = "naive"
    THEN <<ToInstant(event.start), ToInstant(event.end)>>
    ELSE IF event.shape = "allday"
    THEN <<ToInstant(Combine(event.start, 0)), ToInstant(Combine(event.end, 0))>>
    ELSE <<0, 0>>

\* events().list(timeMin, timeMax, singleEvents, orderBy="startTime"): the
\* events ending after timeMin and starting before timeMax, by start time.
RECURSIVE EventList(_)
EventList(S) ==
    IF S = {} THEN <<>>
    ELSE LET e == CHOOSE x \in S : \A y \in S :
                     \/ EventInstants(x)[1] < EventInstants(y)[1]
                     \/ /\ EventInstants(x)[1] = EventInstants(y)[1]
                        /\ x.id <= y.id
         IN  <<e>> \o EventList(S \ {e})

ProviderList(cal, timeMin, timeMax) ==
    EventList({e \in cal : /\ e.shape # "none"
                           /\ EventInstants(e)[2] > timeMin
                           /\ EventInstants(e)[1] < timeMax})

\* BusyFilter keeping every interval the provider returned, whether or not
\* it overlaps the window.
RECURSIVE BusyFilterWholeResponse(_, _, _)
BusyFilterWholeResponse(raw_items, window_start, window_end) ==
    IF raw_items = <<>> THEN <<>>
    ELSE LET raw_item == Head(raw_items)
             rest == BusyFilterWholeResponse(Tail(raw_items), window_start, window_end)
             busy_interval == _google_busy_interval(raw_item)
         IN  IF raw_item.status = "cancelled" THEN rest
             ELSE IF raw_item.transparency = "transparent" THEN rest
             ELSE IF ~busy_interval.ok THEN rest
             ELSE IF busy_interval.val[1] >= busy_interval.val[2] THEN rest
             ELSE <<busy_interval.val>> \o rest

\* The filter loop over the provider's items.
RECURSIVE BusyFilter(_, _, _)
BusyFilter(raw_items, window_start, window_end) ==
    IF raw_items = <<>> THEN <<>>
    ELSE LET raw_item == Head(raw_items)
             rest == BusyFilter(Tail(raw_items), window_start, window_end)
             busy_interval == _google_busy_interval(raw_item)
         IN  IF raw_item.status = "cancelled" THEN rest
             ELSE IF raw_item.transparency = "transparent" THEN rest
             ELSE IF ~busy_interval.ok THEN rest
             ELSE IF busy_interval.val[1] >= busy_interval.val[2] THEN rest
             ELSE IF /\ busy_interval.val[1] < window_end
                     /\ busy_interval.val[2] > window_start
             THEN <<busy_interval.val>> \o rest
             ELSE rest

_google_user_busy_periods_for_window(cal, window_start, window_end) ==
    LET request_start == ToInstant(window_start - MinutesPerDay)
        request_end == ToInstant(window_end + MinutesPerDay)
    IN  BusyFilter(ProviderList(cal, request_start, request_end),
                   window_start, window_end)

\* _load_user_busy_periods_for_window without the try/except around the
\* provider read: the exception reaches the caller.
_load_user_busy_periods_for_window_uncaught(sess, cal, readOk, window_start, window_end) ==
    IF _init_google_credentials(sess) = NoCredentials
    THEN [periods |-> <<>>, flashes |-> <<>>, raised |-> FALSE]
    ELSE IF readOk
    THEN [periods |->
              _google_user_busy_periods_for_window(cal, window_start, window_end),
          flashes |-> <<>>, raised |-> FALSE]
    ELSE [periods |-> <<>>, flashes |-> <<>>, raised |-> TRUE]

\* The result and the flash of the read, and whether an exception leaves the
\* function: no credentials gives the empty list silently; a provider
\* exception gives the empty list and a notice.
_load_user_busy_periods_for_window(sess, cal, readOk, window_start, window_end) ==
    IF _init_google_credentials(sess) = NoCredentials
    THEN [periods |-> <<>>, flashes |-> <<>>, raised |-> FALSE]
    ELSE IF readOk
    THEN [periods |->
              _google_user_busy_periods_for_window(cal, window_start, window_end),
          flashes |-> <<>>, raised |-> FALSE]
    ELSE [periods |-> <<>>,
          flashes |-> <<[category |-> "error",
                         message |-> "Unable to check Google Calendar conflicts right now.",
                         detail |-> <<>>]>>,
          raised |-> FALSE]

\* The event body inserted for a booking; the provider assigns the id.
EventBody(eventId, business, service, start_at, end_at) ==
    [id |-> eventId, shape |-> "zoned",
     start |-> ToInstant(start_at), end |-> ToInstant(end_at),
     status |-> "confirmed", transparency |-> "opaque",
     summary |-> <<service.name, business.name>>]

\* _create_google_primary_event leaving the event behind when the call raises.
_create_google_primary_event_partial(cal, eventId, business, service, start_at, end_at, writeOk) ==
    cal \cup {EventBody(eventId, business, service, start_at, end_at)}

\* _create_google_primary_event inserting only into a free interval.
_create_google_primary_event_if_free(cal, eventId, business, service, start_at, end_at, writeOk) ==
    IF writeOk /\ ~(\E e \in cal : e.shape = "zoned"
                                   /\ e.start < ToInstant(end_at)
                                   /\ e.end > ToInstant(start_at))
    THEN cal \cup {EventBody(eventId, business, service, start_at, end_at)}
    ELSE cal

\* events().insert(calendarId="primary", body=event_body).execute(): the
\* calendar afterwards; when the call raises, nothing was inserted.
_create_google_primary_event(cal, eventId, business, service, start_at, end_at, writeOk) ==
    IF writeOk
    THEN cal \cup {EventBody(eventId, business, service, start_at, end_at)}
    ELSE cal

(* ------------------------------------------------------------------ *)
(* Requests and environment                                           *)
(* ------------------------------------------------------------------ *)

\* Request threads of the web server.
Workers == {"w1", "w2"}

\* Booking requests submitted in one behaviour.
MaxAttempts == 2

\* Events put on the calendar from outside the application.
MaxExternal == 1

Monday == Ordinal(2026, 2, 23)

ClockTexts ==
    {None,
     <<"n", "o", "t", "-", "a", "-", "c", "l", "o", "c", "k">>,
     <<"0", "9", ":", "0", "0">>,
     <<"9", ":", "0", "0">>,
     <<"0", "9", ":", "1", "5">>,
     <<"0", "9", ":", "3", "0">>,
     <<"0", "9", ":", "0", "7">>,
     <<"0", "8", ":", "4", "5">>,
     <<"1", "6", ":", "4", "5">>}

DateTexts ==
    {None,
     <<"2", "0", "2", "6", "-", "0", "2", "-", "3", "0">>,
     <<"2", "0", "2", "6", "-", "2", "-", "2", "3">>,
     <<"2", "0", "2", "6", "-", "0", "3", "-", "0", "1">>}

BaseForm ==
    [business_id |-> "crimson-cuts", service_id |-> "fade-cut",
     date |-> <<"2", "0", "2", "6", "-", "0", "2", "-", "2", "3">>, slot_start |-> <<"0", "9", ":", "0", "0">>]

\* The form posts the model submits: the base booking with one field varied.
RequestForms ==
    {[BaseForm EXCEPT !.slot_start = c] : c \in ClockTexts}
    \cup {[BaseForm EXCEPT !.date = d] : d \in DateTexts}
    \cup {[BaseForm EXCEPT !.business_id = b] :
             b \in {NoneId, "no-such-business", "sweet-serenity"}}
    \cup {[BaseForm EXCEPT !.service_id = v] :
             v \in {NoneId, "no-such-service", "follow-up"}}

\* The forms posted by concurrent requests: the base booking, an overlapping
\* start, a start the business template blocks, a start off the cadence and
\* a malformed start.
RaceForms ==
    {[BaseForm EXCEPT !.slot_start = c] :
        c \in {<<"0", "9", ":", "0", "0">>, <<"0", "9", ":", "1", "5">>, <<"0", "9", ":", "3", "0">>,
               <<"0", "9", ":", "0", "7">>,
               <<"n", "o", "t", "-", "a", "-", "c", "l", "o", "c", "k">>}}

\* Events that the user, or another client, may add to the calendar.
ExternalEvents ==
    {[id |-> 101, shape |-> "zoned",
      start |-> ToInstant(Combine(Monday, 540)),
      end |-> ToInstant(Combine(Monday, 570)),
      status |-> "confirmed", transparency |-> "opaque",
      summary |-> <<"Study Group", "">>],
     [id |-> 102, shape |-> "zoned",
      start |-> ToInstant(Combine(Monday, 540)),
      end |-> ToInstant(Combine(Monday, 600)),
      status |-> "confirmed", transparency |-> "transparent",
      summary |-> <<"Reminder", "">>]}

TodayChoices == {Monday + 1}

VARIABLES
    session,      \* credentials entry of the browser's session cookie
    calendar,     \* events of the user's primary calendar at the provider
    today,        \* date.today()
    pc,           \* per worker: "idle", "load", "write" or "done"
    att,          \* per worker: the booking attempt it is handling
    nAttempts,    \* booking requests submitted so far
    nExternal,    \* outside changes made to the calendar so far
    probe,        \* arguments of a direct call of a scheduling function
    result        \* what that call returned

vars == <<session, calendar, today, pc, att, nAttempts, nExternal, probe, result>>

Flash(category, message, detail) ==
    [category |-> category, message |-> message, detail |-> detail]

\* flask.redirect(flask.url_for(endpoint, **query))
Redirect(endpoint, query) == [endpoint |-> endpoint, query |-> query]

\* date.isoformat()
IsoFormat(day) ==
    LET y == YearOf(day)
        m == MonthOf(day)
        d == DayOfMonth(day)
    IN  <<DigitChar(y \div 1000), DigitChar((y \div 100) % 10),
          DigitChar((y \div 10) % 10), DigitChar(y % 10), "-",
          DigitChar(m \div 10), DigitChar(m % 10), "-",
          DigitChar(d \div 10), DigitChar(d % 10)>>

_schedule_query_for_selection(business, service, selected_date) ==
    [business_id |-> business.id, service_id |-> service.id,
     date |-> IsoFormat(selected_date)]

NoQuery == [business_id |-> "", service_id |-> "", date |-> <<>>]

NoAttempt ==
    [id |-> 0, form |-> BaseForm, sess |-> NoCredentials,
     date |-> 0, start |-> 0, phase |-> "None", reason |-> "none",
     loads |-> 0, writes |-> 0, busy |-> <<>>, chosen |-> <<>>,
     overlapAtWrite |-> FALSE,
     flashes |-> <<>>, redirect |-> Redirect("", NoQuery)]

BusinessOf(a) == _selected_business(a.form.business_id)

ServiceOf(a) == _selected_business_service(BusinessOf(a), a.form.service_id)

ScheduleRedirect(a) ==
    Redirect("schedule",
             _schedule_query_for_selection(BusinessOf(a), ServiceOf(a), a.date))

NoProbe ==
    [fn |-> "none", business_id |-> "", service_id |-> "", date |-> 0,
     periods |-> <<>>]

NoResult == [done |-> FALSE, value |-> <<>>]

Init ==
    /\ session \in {NoCredentials, AccessToken}
    /\ calendar = {}
    /\ today \in TodayChoices
    /\ pc = [w \in Workers |-> "idle"]
    /\ att = [w \in Workers |-> NoAttempt]
    /\ nAttempts = 0
    /\ nExternal = 0
    /\ probe = NoProbe
    /\ result = NoResult

\* /oauth2callback stores the token data in the session.
oauth2callback ==
    /\ session' = AccessToken
    /\ session # AccessToken
    /\ UNCHANGED <<calendar, today, pc, att, nAttempts, nExternal, probe, result>>

\* /logout pops the credentials from the session.
logout ==
    /\ session # NoCredentials
    /\ session' = NoCredentials
    /\ UNCHANGED <<calendar, today, pc, att, nAttempts, nExternal, probe, result>>

\* The calendar changes outside the application.
ExternalChange(e) ==
    /\ nExternal < MaxExternal
    /\ e \notin calendar
    /\ calendar' = calendar \cup {e}
    /\ nExternal' = nExternal + 1
    /\ UNCHANGED <<session, today, pc, att, nAttempts, probe, result>>

(* ------------------------------------------------------------------ *)
(* book_appointment                                                   *)
(*                                                                    *)
(* The handler runs in a request thread; its two provider calls (the  *)
(* read of the busy periods and the insert) are the points where      *)
(* other requests and outside changes interleave, so the handler is   *)
(* three steps: up to the read, the read up to the insert, and the    *)
(* insert to the response.  A request works on the session sent with  *)
(* it (att.sess).                                                     *)
(* ------------------------------------------------------------------ *)

InvalidSlotFlash == Flash("error", "Please choose a valid time slot.", <<>>)

\* BookParse taking an unparseable slot_start as midnight.
BookParseLenient(a0, todayValue) ==
    IF ~_has_google_session_credentials(a0.sess)
    THEN [a0 EXCEPT !.phase = "Rejected", !.reason = "signed_out",
                    !.flashes = <<Flash("error",
                                        "Sign in with Google to continue.", <<>>)>>,
                    !.redirect = Redirect("index", NoQuery)]
    ELSE LET a1 == [a0 EXCEPT
                       !.date = _parse_iso_date(a0.form.date, todayValue)]
             slot_start_raw == a1.form.slot_start
             parsed == _parse_clock(slot_start_raw)
         IN  IF slot_start_raw = None
             THEN [a1 EXCEPT !.phase = "Rejected", !.reason = "invalid_slot",
                             !.flashes = <<InvalidSlotFlash>>,
                             !.redirect = ScheduleRedirect(a1)]
             ELSE [a1 EXCEPT !.phase = "Requested",
                             !.start = Combine(a1.date, parsed.val)]

\* Sign-in check, form parsing, slot_start parsing.
BookParse(a0, todayValue) ==
    IF ~_has_google_session_credentials(a0.sess)
    THEN [a0 EXCEPT !.phase = "Rejected", !.reason = "signed_out",
                    !.flashes = <<Flash("error",
                                        "Sign in with Google to continue.", <<>>)>>,
                    !.redirect = Redirect("index", NoQuery)]
    ELSE LET a1 == [a0 EXCEPT
                       !.date = _parse_iso_date(a0.form.date, todayValue)]
             slot_start_raw == a1.form.slot_start
             parsed == _parse_clock(slot_start_raw)
         IN  IF slot_start_raw = None \/ ~parsed.ok
             THEN [a1 EXCEPT !.phase = "Rejected", !.reason = "invalid_slot",
                             !.flashes = <<InvalidSlotFlash>>,
                             !.redirect = ScheduleRedirect(a1)]
             ELSE [a1 EXCEPT !.phase = "Requested",
                             !.start = Combine(a1.date, parsed.val)]

\* ChosenSlot matching the slot by its parsed clock value.
ChosenSlotByClock(day_slots, slot_start_raw) ==
    LET hits == {i \in 1..Len(day_slots) :
                    _parse_clock(day_slots[i].start_time).val
                        = _parse_clock(slot_start_raw).val}
    IN  IF hits = {} THEN <<>>
        ELSE <<day_slots[CHOOSE i \in hits : \A j \in hits : i <= j]>>

\* next((slot for slot in day_slots if slot.get("start_time") == raw), None)
\* as a list of no or one slot.
ChosenSlot(day_slots, slot_start_raw) ==
    LET hits == {i \in 1..Len(day_slots) :
                    day_slots[i].start_time = slot_start_raw}
    IN  IF hits = {} THEN <<>>
        ELSE <<day_slots[CHOOSE i \in hits : \A j \in hits : i <= j]>>

\* ValidationOutcome without the check of the slot's bookable flag.
ValidationOutcomeAnySlot(chosen_slot, sess) ==
    IF chosen_slot = <<>> THEN "invalid_slot"
    ELSE IF _init_google_credentials(sess) = NoCredentials THEN "session_expired"
    ELSE "validated"

\* The checks between the slot lookup and the insert, in the handler's order.
ValidationOutcome(chosen_slot, sess) ==
    IF chosen_slot = <<>> THEN "invalid_slot"
    ELSE IF ~chosen_slot[1].bookable THEN "slot_taken"
    ELSE IF _init_google_credentials(sess) = NoCredentials THEN "session_expired"
    ELSE "validated"

\* BookValidate of an engine that remembers having handled a booking and
\* takes the slot of every later request as taken.
BookValidateRemembering(a, cal, readOk) ==
    LET business == BusinessOf(a)
        service == ServiceOf(a)
        week_start == _week_start_for(a.date)
        week_end_exclusive == week_start + 7
        loaded == _load_user_busy_periods_for_window(
                      a.sess, cal, readOk,
                      Combine(week_start, 0), Combine(week_end_exclusive, 0))
        selected_day_busy == _busy_periods_for_day(loaded.periods, a.date)
        day_slots == _build_business_day_slots(
                         business, service, a.date, selected_day_busy)
        chosen_slot == ChosenSlot(day_slots, a.form.slot_start)
        a1 == [a EXCEPT !.loads = a.loads + 1,
                        !.busy = loaded.periods,
                        !.chosen = chosen_slot,
                        !.flashes = a.flashes \o loaded.flashes]
        outcome == IF a.id > 1 /\ chosen_slot # <<>> THEN "slot_taken"
                   ELSE ValidationOutcome(chosen_slot, a.sess)
    IN  IF outcome = "invalid_slot"
        THEN [a1 EXCEPT !.phase = "Rejected", !.reason = "invalid_slot",
                        !.flashes = a1.flashes \o
                            <<Flash("error",
                                    "Selected slot is invalid for the chosen service.",
                                    <<>>)>>,
                        !.redirect = ScheduleRedirect(a)]
        ELSE IF outcome = "slot_taken"
        THEN [a1 EXCEPT !.phase = "Rejected", !.reason = "slot_taken",
                        !.flashes = a1.flashes \o
                            <<Flash("error",
                                    "Selected slot is no longer available. Pick another time.",
                                    <<>>)>>,
                        !.redirect = ScheduleRedirect(a)]
        ELSE IF outcome = "session_expired"
        THEN [a1 EXCEPT !.phase = "Rejected", !.reason = "session_expired",
                        !.flashes = a1.flashes \o
                            <<Flash("error",
                                    "Google session expired. Please sign in again.",
                                    <<>>)>>,
                        !.redirect = Redirect("index", NoQuery)]
        ELSE [a1 EXCEPT !.phase = "Validated"]

\* The read of the user's busy periods, the regeneration of the day's
\* slots and the validation of the requested one.
BookValidate(a, cal, readOk) ==
    LET business == BusinessOf(a)
        service == ServiceOf(a)
        week_start == _week_start_for(a.date)
        week_end_exclusive == week_start + 7
        loaded == _load_user_busy_periods_for_window(
                      a.sess, cal, readOk,
                      Combine(week_start, 0), Combine(week_end_exclusive, 0))
        selected_day_busy == _busy_periods_for_day(loaded.periods, a.date)
        day_slots == _build_business_day_slots(
                         business, service, a.date, selected_day_busy)
        chosen_slot == ChosenSlot(day_slots, a.form.slot_start)
        a1 == [a EXCEPT !.loads = a.loads + 1,
                        !.busy = loaded.periods,
                        !.chosen = chosen_slot,
                        !.flashes = a.flashes \o loaded.flashes]
        outcome == ValidationOutcome(chosen_slot, a.sess)
    IN  IF outcome = "invalid_slot"
        THEN [a1 EXCEPT !.phase = "Rejected", !.reason = "invalid_slot",
                        !.flashes = a1.flashes \o
                            <<Flash("error",
                                    "Selected slot is invalid for the chosen service.",
                                    <<>>)>>,
                        !.redirect = ScheduleRedirect(a)]
        ELSE IF outcome = "slot_taken"
        THEN [a1 EXCEPT !.phase = "Rejected", !.reason = "slot_taken",
                        !.flashes = a1.flashes \o
                            <<Flash("error",
                                    "Selected slot is no longer available. Pick another time.",
                                    <<>>)>>,
                        !.redirect = ScheduleRedirect(a)]
        ELSE IF outcome = "session_expired"
        THEN [a1 EXCEPT !.phase = "Rejected", !.reason = "session_expired",
                        !.flashes = a1.flashes \o
                            <<Flash("error",
                                    "Google session expired. Please sign in again.",
                                    <<>>)>>,
                        !.redirect = Redirect("index", NoQuery)]
        ELSE [a1 EXCEPT !.phase = "Validated"]

\* History: whether a busy event of the calendar (not cancelled, not
\* transparent, of positive length) overlaps the interval of attempt a.
BusyOverlap(cal, a) ==
    \E e \in cal :
        /\ e.status # "cancelled"
        /\ e.transparency # "transparent"
        /\ _google_busy_interval(e).ok
        /\ LET iv == _google_busy_interval(e).val
           IN  /\ iv[1] < iv[2]
               /\ a.start < iv[2]
               /\ a.start + ServiceOf(a).duration > iv[1]

\* The attempt after the insert returned (writeOk) or raised.
BookFinish(a, writeOk) ==
    LET service == ServiceOf(a)
        a1 == [a EXCEPT !.writes = a.writes + 1]
    IN  IF ~writeOk
        THEN [a1 EXCEPT !.phase = "Rejected", !.reason = "provider_error",
                        !.flashes = a1.flashes \o
                            <<Flash("error",
                                    "Could not create Google Calendar appointment. Try again.",
                                    <<>>)>>,
                        !.redirect = ScheduleRedirect(a)]
        ELSE [a1 EXCEPT !.phase = "Committed",
                        !.flashes = a1.flashes \o
                            <<Flash("success", "Booked",
                                    <<service.name, DayLabel(a.date),
                                      _datetime_clock_label(a.start % MinutesPerDay)>>)>>,
                        !.redirect = Redirect("home", NoQuery)]

PcOf(a) ==
    IF a.phase = "Requested" THEN "load"
    ELSE IF a.phase = "Validated" THEN "write"
    ELSE "done"

\* POST /appointments arrives and is handled up to the provider read.
BookRequest(w, form) ==
    /\ pc[w] \in {"idle", "done"}
    /\ nAttempts < MaxAttempts
    /\ nAttempts' = nAttempts + 1
    /\ LET a == BookParse([NoAttempt EXCEPT !.id = nAttempts + 1,
                                            !.form = form,
                                            !.sess = session], today)
       IN  /\ att' = [att EXCEPT ![w] = a]
           /\ pc' = [pc EXCEPT ![w] = PcOf(a)]
    /\ UNCHANGED <<session, calendar, today, nExternal, probe, result>>

\* The provider read returns or raises; the handler runs up to the insert.
BookLoad(w, readOk) ==
    /\ pc[w] = "load"
    /\ LET a == BookValidate(att[w], calendar, readOk)
       IN  /\ att' = [att EXCEPT ![w] = a]
           /\ pc' = [pc EXCEPT ![w] = PcOf(a)]
    /\ UNCHANGED <<session, calendar, today, nAttempts, nExternal, probe, result>>

\* The provider insert returns or raises; the handler responds.
BookWrite(w, writeOk) ==
    /\ pc[w] = "write"
    /\ LET a == att[w]
       IN  calendar' = _create_google_primary_event(
                           calendar, a.id, BusinessOf(a), ServiceOf(a),
                           a.start, a.start + ServiceOf(a).duration, writeOk)
    /\ att' = [att EXCEPT ![w] =
                  [BookFinish(att[w], writeOk) EXCEPT
                      !.overlapAtWrite = BusyOverlap(calendar, att[w])]]
    /\ pc' = [pc EXCEPT ![w] = "done"]
    /\ UNCHANGED <<session, today, nAttempts, nExternal, probe, result>>

Next ==
    \/ oauth2callback
    \/ logout
    \/ \E e \in ExternalEvents : ExternalChange(e)
    \/ \E w \in Workers, form \in RaceForms :
          pc[w] = "idle" /\ BookRequest(w, form)
    \/ \E w \in Workers, readOk \in BOOLEAN : BookLoad(w, readOk)
    \/ \E w \in Workers, writeOk \in BOOLEAN : BookWrite(w, writeOk)

\* Two request threads, each serving one post of a form of RaceForms, in
\* every interleaving with each other and with the environment.
Spec == Init /\ [][Next]_vars

NextForms ==
    \/ oauth2callback
    \/ logout
    \/ \E e \in ExternalEvents : ExternalChange(e)
    \/ \E form \in RequestForms : BookRequest("w1", form)
    \/ \E readOk \in BOOLEAN : BookLoad("w1", readOk)
    \/ \E writeOk \in BOOLEAN : BookWrite("w1", writeOk)

\* One thread serving up to MaxAttempts posts, one after the other, of the
\* forms of RequestForms.
SpecForms == Init /\ [][NextForms]_vars

TypeOK ==
    /\ session \in {NoCredentials, AccessToken}
    /\ pc \in [Workers -> {"idle", "load", "write", "done"}]
    /\ nAttempts \in 0..MaxAttempts
    /\ nExternal \in 0..MaxExternal

(* ------------------------------------------------------------------ *)
(* Direct calls of the scheduling functions                           *)
(* ------------------------------------------------------------------ *)

\* Days probed, from Monday 2026-02-23.
ProbeDays == 7

\* Busy periods handed to one call.
MaxPeriods == 2

ProbeDates == {Monday + k : k \in 0..(ProbeDays - 1)}

CatalogPairs ==
    {<<PULLMAN_BUSINESSES[i].id, PULLMAN_BUSINESSES[i].services[j].id>> :
        i \in 1..Len(PULLMAN_BUSINESSES), j \in 1..3}

\* User busy periods around day d: a morning appointment, one ending exactly
\* at 09:00, an all-day event of the day before, and one running past midnight.
PeriodPool(d) ==
    {<<Combine(d, 540), Combine(d, 570)>>,
     <<Combine(d, 480), Combine(d, 540)>>,
     <<Combine(d - 1, 0), Combine(d, 0)>>,
     <<Combine(d, 1020), Combine(d + 1, 60)>>}

SlotProbes ==
    UNION {{[fn |-> "slots", business_id |-> bs[1], service_id |-> bs[2],
             date |-> d, periods |-> PeriodList(S)] :
               bs \in CatalogPairs,
               S \in {T \in SUBSET PeriodPool(d) : Cardinality(T) <= MaxPeriods}} :
           d \in ProbeDates}

ProbeBusiness == _selected_business(probe.business_id)

ProbeService == _selected_business_service(ProbeBusiness, probe.service_id)

InitSlots ==
    /\ session = AccessToken
    /\ calendar = {}
    /\ today \in TodayChoices
    /\ pc = [w \in Workers |-> "idle"]
    /\ att = [w \in Workers |-> NoAttempt]
    /\ nAttempts = 0
    /\ nExternal = 0
    /\ probe \in SlotProbes
    /\ result = NoResult

\* _build_business_day_slots(business, service, chosen_date, user_busy_periods)
CallBuildSlots ==
    /\ probe.fn = "slots"
    /\ ~result.done
    /\ result' = [done |-> TRUE,
                  value |-> _build_business_day_slots(
                                ProbeBusiness, ProbeService,
                                probe.date, probe.periods)]
    /\ UNCHANGED <<session, calendar, today, pc, att, nAttempts, nExternal, probe>>

NextSlots == CallBuildSlots

\* The slot generator called on catalog entries, dates and busy periods.
SpecSlots == InitSlots /\ [][NextSlots]_vars

(* ------------------------------------------------------------------ *)
(* Suggestions of the next bookable slots                             *)
(* ------------------------------------------------------------------ *)

\* The suggestion appended for a bookable slot of current_date.
Suggestion(slot, current_date) ==
    [day_label |-> DayLabel(current_date),
     time_label |-> slot.label,
     start_time |-> slot.start_time,
     date |-> IsoFormat(current_date)]

\* SuggestDay without the break at the limit.
RECURSIVE SuggestDayNoBreak(_, _, _, _, _)
SuggestDayNoBreak(day_slots, i, current_date, suggestions, limit) ==
    IF i > Len(day_slots) THEN suggestions
    ELSE IF ~day_slots[i].bookable
    THEN SuggestDayNoBreak(day_slots, i + 1, current_date, suggestions, limit)
    ELSE SuggestDayNoBreak(day_slots, i + 1, current_date,
                           Append(suggestions,
                                  Suggestion(day_slots[i], current_date)),
                           limit)

\* "for slot in day_slots": skips the slots that are not bookable, appends a
\* suggestion for each bookable one and breaks once limit is reached.
RECURSIVE SuggestDay(_, _, _, _, _)
SuggestDay(day_slots, i, current_date, suggestions, limit) ==
    IF i > Len(day_slots) THEN suggestions
    ELSE IF ~day_slots[i].bookable
    THEN SuggestDay(day_slots, i + 1, current_date, suggestions, limit)
    ELSE LET appended == Append(suggestions,
                                Suggestion(day_slots[i], current_date))
         IN  IF Len(appended) >= limit THEN appended
             ELSE SuggestDay(day_slots, i + 1, current_date, appended, limit)

\* "while current_date < week_end_exclusive and len(suggestions) < limit"
RECURSIVE SuggestWeek(_, _, _, _, _, _, _)
SuggestWeek(business, service, current_date, week_end_exclusive, user_busy_periods, suggestions, limit) ==
    IF current_date < week_end_exclusive /\ Len(suggestions) < limit
    THEN LET current_day_busy ==
                 _busy_periods_for_day(user_busy_periods, current_date)
             day_slots == _build_business_day_slots(
                              business, service, current_date, current_day_busy)
         IN  SuggestWeek(business, service, current_date + 1,
                         week_end_exclusive, user_busy_periods,
                         SuggestDay(day_slots, 1, current_date,
                                    suggestions, limit),
                         limit)
    ELSE suggestions

\* _next_bookable_slots_in_week scanning from the Monday of the week.
_next_bookable_slots_in_week_from_monday(business, service, selected_date, user_busy_periods, limit) ==
    SuggestWeek(business, service, _week_start_for(selected_date),
                _week_start_for(selected_date) + 7,
                user_busy_periods, <<>>, limit)

_next_bookable_slots_in_week(business, service, selected_date, user_busy_periods, limit) ==
    SuggestWeek(business, service, selected_date,
                _week_start_for(selected_date) + 7,
                user_busy_periods, <<>>, limit)

\* Largest limit asked for.
MaxLimit == 3

\* User busy periods of a week seen from day d: those of PeriodPool, the
\* whole of day d, day d until 16:30, and the morning of the day after.
WeekPeriodPool(d) ==
    PeriodPool(d) \cup
        {<<Combine(d, 0), Combine(d + 1, 0)>>,
         <<Combine(d, 0), Combine(d, 990)>>,
         <<Combine(d + 1, 480), Combine(d + 1, 720)>>}

SuggestProbes ==
    UNION {{[fn |-> "suggest", business_id |-> bs[1], service_id |-> bs[2],
             date |-> d, periods |-> PeriodList(S), limit |-> n] :
               bs \in CatalogPairs,
               S \in {T \in SUBSET WeekPeriodPool(d) : Cardinality(T) <= MaxPeriods},
               n \in 0..MaxLimit} :
           d \in ProbeDates}

InitSuggest ==
    /\ session = AccessToken
    /\ calendar = {}
    /\ today \in TodayChoices
    /\ pc = [w \in Workers |-> "idle"]
    /\ att = [w \in Workers |-> NoAttempt]
    /\ nAttempts = 0
    /\ nExternal = 0
    /\ probe \in SuggestProbes
    /\ result = NoResult

\* _next_bookable_slots_in_week(business, service, selected_date,
\*                              user_busy_periods, limit)
CallNextBookable ==
    /\ probe.fn = "suggest"
    /\ ~result.done
    /\ result' = [done |-> TRUE,
                  value |-> _next_bookable_slots_in_week(
                                ProbeBusiness, ProbeService, probe.date,
                                probe.periods, probe.limit)]
    /\ UNCHANGED <<session, calendar, today, pc, att, nAttempts, nExternal, probe>>

NextSuggest == CallNextBookable

\* The suggestion list computed for catalog entries, dates, weekly busy
\* periods and limits.
SpecSuggest == InitSuggest /\ [][NextSuggest]_vars

(* ------------------------------------------------------------------ *)
(* Week status strip                                                  *)
(* ------------------------------------------------------------------ *)

\* sum(1 for slot in day_slots if slot["bookable"])
BookableCount(day_slots) ==
    Cardinality({i \in 1..Len(day_slots) : day_slots[i].bookable})

\* WeekStatus looking at the count before the open weekdays.
WeekStatusCountFirst(open_weekdays, current_date, available_count) ==
    IF available_count = 0 THEN [status |-> "full", status_label |-> "Full"]
    ELSE IF Weekday(current_date) \notin open_weekdays
    THEN [status |-> "closed", status_label |-> "Closed"]
    ELSE IF available_count < 5
    THEN [status |-> "limited", status_label |-> "Limited"]
    ELSE [status |-> "open", status_label |-> "Open"]

\* The status and its label for one day of the strip.
WeekStatus(open_weekdays, current_date, available_count) ==
    IF Weekday(current_date) \notin open_weekdays
    THEN [status |-> "closed", status_label |-> "Closed"]
    ELSE IF available_count = 0
    THEN [status |-> "full", status_label |-> "Full"]
    ELSE IF available_count < 5
    THEN [status |-> "limited", status_label |-> "Limited"]
    ELSE [status |-> "open", status_label |-> "Open"]

_build_week_preview(business, service, selected_date, user_busy_periods) ==
    LET week_start == selected_date - Weekday(selected_date)
    IN  [k \in 1..7 |->
            LET current_date == week_start + (k - 1)
                current_day_busy ==
                    _busy_periods_for_day(user_busy_periods, current_date)
                day_slots == _build_business_day_slots(
                                 business, service, current_date,
                                 current_day_busy)
                available_count == BookableCount(day_slots)
                st == WeekStatus(business.open_weekdays, current_date,
                                 available_count)
            IN  [date |-> IsoFormat(current_date),
                 weekday |-> WeekdayAbbr[Weekday(current_date) + 1],
                 day_number |-> <<DigitChar(DayOfMonth(current_date) \div 10),
                                  DigitChar(DayOfMonth(current_date) % 10)>>,
                 status |-> st.status,
                 status_label |-> st.status_label,
                 available_count |-> available_count,
                 is_selected |-> (current_date = selected_date)]]

\* Weekly user busy periods for the strip: those of WeekPeriodPool and one
\* keeping day d busy until 16:00.
PreviewPeriodPool(d) ==
    WeekPeriodPool(d) \cup {<<Combine(d, 0), Combine(d, 960)>>}

PreviewProbes ==
    UNION {{[fn |-> "preview", business_id |-> bs[1], service_id |-> bs[2],
             date |-> d, periods |-> PeriodList(S)] :
               bs \in CatalogPairs,
               S \in {T \in SUBSET PreviewPeriodPool(d) :
                         Cardinality(T) <= MaxPeriods}} :
           d \in ProbeDates}

InitPreview ==
    /\ session = AccessToken
    /\ calendar = {}
    /\ today \in TodayChoices
    /\ pc = [w \in Workers |-> "idle"]
    /\ att = [w \in Workers |-> NoAttempt]
    /\ nAttempts = 0
    /\ nExternal = 0
    /\ probe \in PreviewProbes
    /\ result = NoResult

\* _build_week_preview(business, service, selected_date, user_busy_periods)
CallWeekPreview ==
    /\ probe.fn = "preview"
    /\ ~result.done
    /\ result' = [done |-> TRUE,
                  value |-> _build_week_preview(
                                ProbeBusiness, ProbeService, probe.date,
                                probe.periods)]
    /\ UNCHANGED <<session, calendar, today, pc, att, nAttempts, nExternal, probe>>

NextPreview == CallWeekPreview

\* The week strip computed for catalog entries, dates and weekly busy periods.
SpecPreview == InitPreview /\ [][NextPreview]_vars

(* ------------------------------------------------------------------ *)
(* Direct calls of the busy-period read                               *)
(* ------------------------------------------------------------------ *)

\* Events the user's calendar may hold when the read is made.
LoadEvents ==
    ExternalEvents \cup
        {[id |-> 103, shape |-> "zoned",
          start |-> ToInstant(Combine(Monday + 1, 600)),
          end |-> ToInstant(Combine(Monday + 1, 660)),
          status |-> "cancelled", transparency |-> "opaque",
          summary |-> <<"Cancelled", "">>],
         [id |-> 104, shape |-> "allday",
          start |-> Monday + 2, end |-> Monday + 3,
          status |-> "confirmed", transparency |-> "opaque",
          summary |-> <<"Conference", "">>]}

\* A session whose credentials carry an empty token.
EmptyToken == ""

InitLoad ==
    /\ session \in {NoCredentials, EmptyToken, AccessToken}
    /\ calendar \in SUBSET LoadEvents
    /\ today \in TodayChoices
    /\ pc = [w \in Workers |-> "idle"]
    /\ att = [w \in Workers |-> NoAttempt]
    /\ nAttempts = 0
    /\ nExternal = 0
    /\ probe \in {[fn |-> "load", date |-> d] : d \in ProbeDates}
    /\ result = NoResult

\* _load_user_busy_periods_for_window(window_start, window_end) for the week
\* of the probed date; the provider read, if made, returns or raises.
CallLoadBusy(readOk) ==
    /\ probe.fn = "load"
    /\ ~result.done
    /\ LET week_start == _week_start_for(probe.date)
       IN  result' = [done |-> TRUE,
                      readOk |-> readOk,
                      value |-> _load_user_busy_periods_for_window(
                                    session, calendar, readOk,
                                    Combine(week_start, 0),
                                    Combine(week_start + 7, 0))]
    /\ UNCHANGED <<session, calendar, today, pc, att, nAttempts, nExternal, probe>>

NextLoad == \E readOk \in BOOLEAN : CallLoadBusy(readOk)

\* The busy-period read made with each kind of session against calendars
\* of LoadEvents.
SpecLoad == InitLoad /\ [][NextLoad]_vars

(* ------------------------------------------------------------------ *)
(* Direct calls of the catalog lookups                                *)
(* ------------------------------------------------------------------ *)

BusinessIdChoices ==
    {PULLMAN_BUSINESSES[i].id : i \in 1..Len(PULLMAN_BUSINESSES)}
        \cup {NoneId, "", "no-such-business", "Crimson-Cuts"}

ServiceIdChoices ==
    {bs[2] : bs \in CatalogPairs}
        \cup {NoneId, "", "no-such-service", "Fade-Cut"}

InitCatalog ==
    /\ session = AccessToken
    /\ calendar = {}
    /\ today \in TodayChoices
    /\ pc = [w \in Workers |-> "idle"]
    /\ att = [w \in Workers |-> NoAttempt]
    /\ nAttempts = 0
    /\ nExternal = 0
    /\ probe \in {[fn |-> "select", business_id |-> b, service_id |-> v] :
                     b \in BusinessIdChoices, v \in ServiceIdChoices}
    /\ result = NoResult

\* selected_business = _selected_business(business_id)
\* selected_service = _selected_business_service(selected_business, service_id)
CallSelect ==
    /\ probe.fn = "select"
    /\ ~result.done
    /\ LET selected_business == _selected_business(probe.business_id)
       IN  result' = [done |-> TRUE,
                      value |-> [business |-> selected_business,
                                 service |-> _selected_business_service(
                                                 selected_business,
                                                 probe.service_id)]]
    /\ UNCHANGED <<session, calendar, today, pc, att, nAttempts, nExternal, probe>>

NextCatalog == CallSelect

\* The two lookups made with known, unknown and absent identifiers.
SpecCatalog == InitCatalog /\ [][NextCatalog]_vars

(* ------------------------------------------------------------------ *)
(* Page handlers: /home, /schedule, /schedule/data                    *)
(* ------------------------------------------------------------------ *)

SignInFlash == Flash("error", "Sign in with Google to continue.", <<>>)

\* _require_signed_in that flashes the notice but lets the request through.
_require_signed_in_flash_only(sess) ==
    [redirected |-> FALSE,
     flashes |-> IF _has_google_session_credentials(sess) THEN <<>>
                 ELSE <<SignInFlash>>]

\* None for a signed-in session, else the notice and the redirect to index.
_require_signed_in(sess) ==
    IF _has_google_session_credentials(sess)
    THEN [redirected |-> FALSE, flashes |-> <<>>]
    ELSE [redirected |-> TRUE, flashes |-> <<SignInFlash>>]

\* strftime("%I:%M %p").lstrip("0") of an HH:MM text.
_clock_label(raw_clock) == _datetime_clock_label(_parse_clock(raw_clock).val)

_service_time_range_label(service) ==
    <<_clock_label(service.time_range.start),
      _clock_label(service.time_range.end)>>

\* The dictionary _schedule_view_context returns, with the flashes of the
\* busy-period read and the number of provider reads attempted.
ViewOfSlots(selected_business, selected_service, selected_date_value, loaded, reads, day_slots) ==
    [selected_business |-> selected_business.id,
     selected_service |-> selected_service.id,
     selected_date |-> IsoFormat(selected_date_value),
     selected_time_range |-> _service_time_range_label(selected_service),
     week_days |-> _build_week_preview(
                       selected_business, selected_service,
                       selected_date_value, loaded.periods),
     day_slots |-> day_slots,
     available_count |-> BookableCount(day_slots),
     unavailable_count |-> Len(day_slots) - BookableCount(day_slots),
     next_available_slots |->
         _next_bookable_slots_in_week(
             selected_business, selected_service, selected_date_value,
             loaded.periods, 3),
     flashes |-> loaded.flashes,
     reads |-> reads]

\* The view for the resolved business, service and date and the outcome of
\* the busy-period read: the selected day's slots, then the dictionary.
ScheduleView(selected_business, selected_service, selected_date_value, loaded, reads) ==
    ViewOfSlots(selected_business, selected_service, selected_date_value,
                loaded, reads,
                _build_business_day_slots(
                    selected_business, selected_service, selected_date_value,
                    _busy_periods_for_day(loaded.periods, selected_date_value)))

\* The busy-period read for the week of the selected date, then the view.
ViewOfSelection(selected_business, service_id, selected_date_value, sess, cal, readOk) ==
    ScheduleView(selected_business,
                 _selected_business_service(selected_business, service_id),
                 selected_date_value,
                 _load_user_busy_periods_for_window(
                     sess, cal, readOk,
                     Combine(_week_start_for(selected_date_value), 0),
                     Combine(_week_start_for(selected_date_value) + 7, 0)),
                 IF _init_google_credentials(sess) = NoCredentials
                 THEN 0 ELSE 1)

\* The shared view data of /schedule and /schedule/data.
_schedule_view_context(business_id, service_id, raw_date, sess, cal, readOk, todayValue) ==
    ViewOfSelection(_selected_business(business_id), service_id,
                    _parse_iso_date(raw_date, todayValue), sess, cal, readOk)

\* The source and the flashes of _load_user_events; the events themselves
\* are rendered and kept nowhere.
_load_user_events(sess, readOk) ==
    IF _init_google_credentials(sess) = NoCredentials
    THEN [source |-> "Mock Calendar", flashes |-> <<>>, reads |-> 0]
    ELSE IF readOk
    THEN [source |-> "Google Calendar", flashes |-> <<>>, reads |-> 1]
    ELSE [source |-> "Mock Calendar",
          flashes |-> <<Flash("error",
                              "Unable to read Google Calendar right now. Showing mock events.",
                              <<>>)>>,
          reads |-> 1]

NoContext == <<>>

\* The response of home: home.html with the calendar's source.
HomePage(sess, gate, loaded) ==
    [endpoint |-> "home", sess |-> sess, kind |-> "page",
     redirect |-> Redirect("", NoQuery),
     flashes |-> gate.flashes \o loaded.flashes,
     reads |-> loaded.reads, writes |-> 0,
     source |-> loaded.source, context |-> NoContext]

\* The response of schedule (availability.html) or schedule_data (JSON).
SchedulePage(endpoint, sess, gate, ctx) ==
    [endpoint |-> endpoint, sess |-> sess,
     kind |-> IF endpoint = "schedule" THEN "page" ELSE "json",
     redirect |-> Redirect("", NoQuery),
     flashes |-> gate.flashes \o ctx.flashes,
     reads |-> ctx.reads, writes |-> 0,
     source |-> "", context |-> ctx]

\* The response once _require_signed_in has answered.
GatedResponse(endpoint, query, sess, cal, readOk, todayValue, gate) ==
    IF gate.redirected
    THEN [endpoint |-> endpoint, sess |-> sess, kind |-> "redirect",
          redirect |-> Redirect("index", NoQuery),
          flashes |-> gate.flashes, reads |-> 0, writes |-> 0,
          source |-> "", context |-> NoContext]
    ELSE IF endpoint = "home"
    THEN HomePage(sess, gate, _load_user_events(sess, readOk))
    ELSE SchedulePage(endpoint, sess, gate,
                      _schedule_view_context(
                          query.business_id, query.service_id, query.date,
                          sess, cal, readOk, todayValue))

\* The response of one GET on home, schedule or schedule_data.
PageResponse(endpoint, query, sess, cal, readOk, todayValue) ==
    GatedResponse(endpoint, query, sess, cal, readOk, todayValue,
                  _require_signed_in(sess))

PageEndpoints == {"home", "schedule", "schedule_data"}

PageQueries ==
    {[business_id |-> BaseForm.business_id, service_id |-> BaseForm.service_id,
      date |-> BaseForm.date],
     [business_id |-> NoneId, service_id |-> NoneId, date |-> None]}

\* GET /home, /schedule or /schedule/data, handled to its response.
PageRequest(endpoint, query, readOk) ==
    /\ result' = [done |-> TRUE,
                  value |-> PageResponse(endpoint, query, session, calendar,
                                         readOk, today)]
    /\ UNCHANGED <<session, calendar, today, pc, att, nAttempts, nExternal, probe>>

NextPages ==
    \/ oauth2callback
    \/ logout
    \/ \E endpoint \in PageEndpoints, query \in PageQueries, readOk \in BOOLEAN :
          PageRequest(endpoint, query, readOk)
    \/ BookRequest("w1", BaseForm)
    \/ \E readOk \in BOOLEAN : BookLoad("w1", readOk)
    \/ \E writeOk \in BOOLEAN : BookWrite("w1", writeOk)

\* Page views and bookings of one browser signing in and out; the calendar
\* changes through the bookings only.
SpecPages == Init /\ [][NextPages]_vars

(* ------------------------------------------------------------------ *)
(* Home calendar: week columns                                        *)
(*                                                                    *)
(* An event handed to the home views is a record                      *)
(*   [day_iso, sort_key, title, slot_label, time_label, location]     *)
(* whose texts are sequences of characters or None, and whose         *)
(* sort_key is <<n>> for the integer n and <<>> for anything else.    *)
(* ------------------------------------------------------------------ *)

\* The characters of the titles, in code point order.
TitleChars == <<"A", "B", "C", "a", "b", "c">>

CharCode(c) == CHOOSE i \in 1..Len(TitleChars) : TitleChars[i] = c

\* str.lower() on one character.
LowerChar(c) ==
    IF c = "A" THEN "a" ELSE IF c = "B" THEN "b" ELSE IF c = "C" THEN "c" ELSE c

\* str.lower()
Lower(text) == [i \in 1..Len(text) |-> LowerChar(text[i])]

\* text1 < text2 as Python compares strings.
RECURSIVE TextLess(_, _)
TextLess(text1, text2) ==
    IF text2 = <<>> THEN FALSE
    ELSE IF text1 = <<>> THEN TRUE
    ELSE IF Head(text1) # Head(text2)
    THEN CharCode(Head(text1)) < CharCode(Head(text2))
    ELSE TextLess(Tail(text1), Tail(text2))

UntitledEvent == <<"U", "n", "t", "i", "t", "l", "e", "d">>

TimeUnavailable == <<"T", "i", "m", "e", " ", "u", "n", "a", "v", "a", "i", "l", "a", "b", "l", "e">>

\* _string_or_none(value) or default
TextOr(value, default) ==
    IF value = None \/ value = <<>> THEN default ELSE value

\* The dictionary appended to the day's list for an event.
HomeDayEvent(event) ==
    [title |-> TextOr(event.title, UntitledEvent),
     slot_label |-> IF event.slot_label # None THEN event.slot_label
                    ELSE TextOr(event.time_label, TimeUnavailable),
     location |-> TextOr(event.location, <<>>),
     sort_key |-> IF event.sort_key = <<>> THEN 9999 ELSE event.sort_key[1]]

\* KeyLess comparing the titles as written.
KeyLessRawTitle(e1, e2) ==
    \/ e1.sort_key < e2.sort_key
    \/ e1.sort_key = e2.sort_key /\ TextLess(e1.title, e2.title)

\* (sort_key, title.lower()) of e1 is less than that of e2.
KeyLess(e1, e2) ==
    \/ e1.sort_key < e2.sort_key
    \/ e1.sort_key = e2.sort_key /\ TextLess(Lower(e1.title), Lower(e2.title))

\* Inserts e after the entries whose key is not greater (the sort is stable).
RECURSIVE InsertByKey(_, _)
InsertByKey(sorted, e) ==
    IF sorted = <<>> THEN <<e>>
    ELSE IF KeyLess(e, Head(sorted)) THEN <<e>> \o sorted
    ELSE <<Head(sorted)>> \o InsertByKey(Tail(sorted), e)

\* day_events.sort(key=lambda event: (event["sort_key"], title.lower()))
RECURSIVE SortByKey(_)
SortByKey(day_events) ==
    IF day_events = <<>> THEN <<>>
    ELSE InsertByKey(SortByKey(SubSeq(day_events, 1, Len(day_events) - 1)),
                     day_events[Len(day_events)])

\* events_by_day.get(day_iso, []): the day's events in input order, sorted.
_home_events_by_day(events, day_iso) ==
    LET mine == SelectSeq(events, LAMBDA event : event.day_iso # None
                                                  /\ event.day_iso = day_iso)
    IN  SortByKey([i \in 1..Len(mine) |-> HomeDayEvent(mine[i])])

WeekdayNames ==
    <<"Monday", "Tuesday", "Wednesday", "Thursday", "Friday", "Saturday",
      "Sunday">>

\* The seven columns of the week that starts at week_start.
_home_week_columns(week_start, todayValue, events) ==
    [k \in 1..7 |->
        LET current_day == week_start + (k - 1)
        IN  [day_iso |-> IsoFormat(current_day),
             weekday |-> WeekdayNames[Weekday(current_day) + 1],
             month_day |-> <<MonthAbbr[MonthOf(current_day)],
                             DigitChar(DayOfMonth(current_day) \div 10),
                             DigitChar(DayOfMonth(current_day) % 10)>>,
             is_today |-> (current_day = todayValue),
             events |-> _home_events_by_day(events, IsoFormat(current_day))]]

\* Events handed to one call.
MaxEvents == 2

\* Events around the week starting at d: two of the same day and time whose
\* titles differ in case, a later and an earlier one of the same day, one of
\* the last day of the week, one of the day after the week, one without a
\* day, and one of the first day without title, time or sort key.
HomeEventPool(d) ==
    {[day_iso |-> IsoFormat(d), sort_key |-> <<540>>, title |-> <<"C">>,
      slot_label |-> <<"9">>, time_label |-> None, location |-> <<"a">>],
     [day_iso |-> IsoFormat(d), sort_key |-> <<540>>, title |-> <<"a">>,
      slot_label |-> None, time_label |-> <<"9">>, location |-> None],
     [day_iso |-> IsoFormat(d), sort_key |-> <<480>>, title |-> <<"b">>,
      slot_label |-> <<"8">>, time_label |-> None, location |-> None],
     [day_iso |-> IsoFormat(d + 6), sort_key |-> <<600>>, title |-> <<"B">>,
      slot_label |-> <<"1", "0">>, time_label |-> None, location |-> None],
     [day_iso |-> IsoFormat(d + 7), sort_key |-> <<540>>, title |-> <<"A">>,
      slot_label |-> <<"9">>, time_label |-> None, location |-> None],
     [day_iso |-> None, sort_key |-> <<540>>, title |-> <<"c">>,
      slot_label |-> <<"9">>, time_label |-> None, location |-> None],
     [day_iso |-> IsoFormat(d), sort_key |-> <<>>, title |-> None,
      slot_label |-> None, time_label |-> None, location |-> None]}

\* The lists of at most n events of the pool.
RECURSIVE EventLists(_, _)
EventLists(pool, n) ==
    IF n = 0 THEN {<<>>}
    ELSE EventLists(pool, n - 1)
            \cup {Append(l, e) : l \in {x \in EventLists(pool, n - 1) :
                                            Len(x) = n - 1},
                                 e \in pool}

HomeProbes ==
    UNION {{[fn |-> "columns", date |-> d, events |-> l] :
               l \in EventLists(HomeEventPool(d), MaxEvents)} :
           d \in ProbeDates}

InitHome ==
    /\ session = AccessToken
    /\ calendar = {}
    /\ today \in TodayChoices
    /\ pc = [w \in Workers |-> "idle"]
    /\ att = [w \in Workers |-> NoAttempt]
    /\ nAttempts = 0
    /\ nExternal = 0
    /\ probe \in HomeProbes
    /\ result = NoResult

\* _home_week_columns(week_start, today, events)
CallHomeWeekColumns ==
    /\ probe.fn = "columns"
    /\ ~result.done
    /\ result' = [done |-> TRUE,
                  value |-> _home_week_columns(probe.date, today, probe.events)]
    /\ UNCHANGED <<session, calendar, today, pc, att, nAttempts, nExternal, probe>>

NextHome == CallHomeWeekColumns

\* The week columns computed for week starts and event lists.
SpecHome == InitHome /\ [][NextHome]_vars

(* ------------------------------------------------------------------ *)
(* Home calendar: periods and month cells                             *)
(* ------------------------------------------------------------------ *)

\* raw_date.replace(day=1)
_month_start_for(raw_date) == raw_date - DayOfMonth(raw_date) + 1

_home_calendar_view(raw_view) ==
    IF raw_view \in {"week", "month"} THEN raw_view ELSE "week"

_home_period_start(raw_start, view, todayValue) ==
    LET parsed_start == _parse_iso_date_or_none(raw_start)
        anchor == IF parsed_start.ok THEN parsed_start.val ELSE todayValue
    IN  IF view = "month" THEN _month_start_for(anchor)
        ELSE _week_start_for(anchor)

\* _shift_month keeping the year of month_start.
_shift_month_same_year(month_start, month_delta) ==
    LET shifted_index == (MonthOf(month_start) - 1) + month_delta
    IN  Ordinal(YearOf(month_start), (shifted_index % 12) + 1, 1)

\* divmod of the month index by 12 gives the year and the month from zero.
_shift_month(month_start, month_delta) ==
    LET month_index == (YearOf(month_start) * 12) + (MonthOf(month_start) - 1)
        shifted_index == month_index + month_delta
    IN  Ordinal(shifted_index \div 12, (shifted_index % 12) + 1, 1)

_home_period_end_exclusive(view, period_start) ==
    IF view = "month" THEN _shift_month(period_start, 1)
    ELSE period_start + 7

_home_neighbor_start(view, period_start, step) ==
    IF view = "month" THEN _shift_month(period_start, step)
    ELSE period_start + 7 * step

\* The cell of current_day.
MonthCell(current_day, month_start, todayValue, day_events) ==
    [day_iso |-> IsoFormat(current_day),
     day_number |-> DayOfMonth(current_day),
     is_today |-> (current_day = todayValue),
     is_in_month |-> (MonthOf(current_day) = MonthOf(month_start)),
     events |-> SubSeq(day_events, 1, IF Len(day_events) < 3 THEN Len(day_events) ELSE 3),
     extra_count |-> IF Len(day_events) - 3 > 0 THEN Len(day_events) - 3 ELSE 0]

\* The cells from first_grid_day through last_grid_day.
MonthGrid(first_grid_day, last_grid_day, month_start, todayValue, events) ==
    [k \in 1..(last_grid_day - first_grid_day + 1) |->
        MonthCell(first_grid_day + (k - 1), month_start, todayValue,
                  _home_events_by_day(events,
                                      IsoFormat(first_grid_day + (k - 1))))]

\* _home_month_cells ending the grid on the last day of the month.
_home_month_cells_to_month_end(month_start, todayValue, events) ==
    MonthGrid(_week_start_for(month_start), _shift_month(month_start, 1) - 1,
              month_start, todayValue, events)

_home_month_cells(month_start, todayValue, events) ==
    LET month_end_exclusive == _shift_month(month_start, 1)
        month_last_day == month_end_exclusive - 1
        first_grid_day == _week_start_for(month_start)
        last_grid_day == month_last_day + (6 - Weekday(month_last_day))
    IN  MonthGrid(first_grid_day, last_grid_day, month_start, todayValue, events)

\* Month starts the home view is opened on: December 2025 to February 2027.
MonthStarts ==
    {Ordinal(2025, 12, 1)} \cup {Ordinal(2026, m, 1) : m \in 1..12}
        \cup {Ordinal(2027, 1, 1), Ordinal(2027, 2, 1)}

\* Most events of one day in a call.
MaxDayEvents == 4

\* n events of day d, the latest first, and one event a week later.
DayEventList(d, n) ==
    [i \in 1..(n + 1) |->
        IF i <= n
        THEN [day_iso |-> IsoFormat(d), sort_key |-> <<600 - 30 * i>>,
              title |-> <<"a">>, slot_label |-> None, time_label |-> None,
              location |-> None]
        ELSE [day_iso |-> IsoFormat(d + 7), sort_key |-> <<540>>,
              title |-> <<"b">>, slot_label |-> None, time_label |-> None,
              location |-> None]]

\* Calls for each month start, with events on the day before the month, on
\* its first day, in its middle, or on its last day.
MonthProbes ==
    UNION {{[fn |-> "month", date |-> m, events |-> DayEventList(d, n)] :
               d \in {m - 1, m, m + 14, _shift_month(m, 1) - 1},
               n \in 0..MaxDayEvents} :
           m \in MonthStarts}

InitMonth ==
    /\ session = AccessToken
    /\ calendar = {}
    /\ today \in TodayChoices
    /\ pc = [w \in Workers |-> "idle"]
    /\ att = [w \in Workers |-> NoAttempt]
    /\ nAttempts = 0
    /\ nExternal = 0
    /\ probe \in MonthProbes
    /\ result = NoResult

\* _home_month_cells(month_start, today, events)
CallHomeMonthCells ==
    /\ probe.fn = "month"
    /\ ~result.done
    /\ result' = [done |-> TRUE,
                  value |-> _home_month_cells(probe.date, today, probe.events)]
    /\ UNCHANGED <<session, calendar, today, pc, att, nAttempts, nExternal, probe>>

NextMonth == CallHomeMonthCells

\* The month cells computed for month starts and event lists.
SpecMonth == InitMonth /\ [][NextMonth]_vars

(* ------------------------------------------------------------------ *)
(* Direct calls of the live busy-period read                          *)
(* ------------------------------------------------------------------ *)

\* Events of the primary calendar around the week of Monday: an appointment,
\* a transparent one, a cancelled one, an all-day event, one without offset,
\* an empty and an inverted one, one on the Sunday before the week, one
\* running over midnight, and one without times.
BusyEvents ==
    {[id |-> 201, shape |-> "zoned",
      start |-> ToInstant(Combine(Monday, 540)),
      end |-> ToInstant(Combine(Monday, 570)),
      status |-> "confirmed", transparency |-> "opaque",
      summary |-> <<"Study Group", "">>],
     [id |-> 202, shape |-> "zoned",
      start |-> ToInstant(Combine(Monday, 540)),
      end |-> ToInstant(Combine(Monday, 600)),
      status |-> "confirmed", transparency |-> "transparent",
      summary |-> <<"Reminder", "">>],
     [id |-> 203, shape |-> "zoned",
      start |-> ToInstant(Combine(Monday + 1, 600)),
      end |-> ToInstant(Combine(Monday + 1, 660)),
      status |-> "cancelled", transparency |-> "opaque",
      summary |-> <<"Cancelled", "">>],
     [id |-> 204, shape |-> "allday",
      start |-> Monday + 1, end |-> Monday + 2,
      status |-> "confirmed", transparency |-> "opaque",
      summary |-> <<"Conference", "">>],
     [id |-> 205, shape |-> "naive",
      start |-> Combine(Monday, 840), end |-> Combine(Monday, 900),
      status |-> "confirmed", transparency |-> "opaque",
      summary |-> <<"Dentist", "">>],
     [id |-> 206, shape |-> "zoned",
      start |-> ToInstant(Combine(Monday, 720)),
      end |-> ToInstant(Combine(Monday, 720)),
      status |-> "confirmed", transparency |-> "opaque",
      summary |-> <<"Empty", "">>],
     [id |-> 207, shape |-> "naive",
      start |-> Combine(Monday, 780), end |-> Combine(Monday, 750),
      status |-> "confirmed", transparency |-> "opaque",
      summary |-> <<"Inverted", "">>],
     [id |-> 208, shape |-> "zoned",
      start |-> ToInstant(Combine(Monday - 1, 600)),
      end |-> ToInstant(Combine(Monday - 1, 660)),
      status |-> "confirmed", transparency |-> "opaque",
      summary |-> <<"Brunch", "">>],
     [id |-> 209, shape |-> "zoned",
      start |-> ToInstant(Combine(Monday, 1410)),
      end |-> ToInstant(Combine(Monday + 1, 30)),
      status |-> "confirmed", transparency |-> "opaque",
      summary |-> <<"Late Call", "">>],
     [id |-> 210, shape |-> "none", start |-> 0, end |-> 0,
      status |-> "confirmed", transparency |-> "opaque",
      summary |-> <<"Untimed", "">>]}

\* The windows the handlers read: the week of Monday, and single days.
BusyWindows ==
    {<<Combine(Monday, 0), Combine(Monday + 7, 0)>>}
        \cup {<<Combine(Monday + k, 0), Combine(Monday + k + 1, 0)>> : k \in 0..2}

InitBusy ==
    /\ session = AccessToken
    /\ calendar \in SUBSET BusyEvents
    /\ today \in TodayChoices
    /\ pc = [w \in Workers |-> "idle"]
    /\ att = [w \in Workers |-> NoAttempt]
    /\ nAttempts = 0
    /\ nExternal = 0
    /\ probe \in {[fn |-> "busy", window_start |-> w[1], window_end |-> w[2]] :
                     w \in BusyWindows}
    /\ result = NoResult

\* _google_user_busy_periods_for_window(credentials, window_start, window_end)
CallGoogleBusy ==
    /\ probe.fn = "busy"
    /\ ~result.done
    /\ result' = [done |-> TRUE,
                  value |-> _google_user_busy_periods_for_window(
                                calendar, probe.window_start, probe.window_end)]
    /\ UNCHANGED <<session, calendar, today, pc, att, nAttempts, nExternal, probe>>

NextBusy == CallGoogleBusy

\* The live read made against calendars of BusyEvents.
SpecBusy == InitBusy /\ [][NextBusy]_vars

(* ------------------------------------------------------------------ *)
(* Provider timestamps as texts                                       *)
(*                                                                    *)
(* An item of the provider's response is [start, end]; each of the    *)
(* two is [dict, dateTime, date]: dict = FALSE for a value that is    *)
(* not a dictionary, and dateTime and date are texts or None.  A      *)
(* datetime is [day, minute, second]; the texts read are those of     *)
(* the extended ISO format, YYYY-MM-DD[*HH:MM[:SS][+HH:MM]].          *)
(* ------------------------------------------------------------------ *)

\* raw_value.replace("Z", "+00:00")
RECURSIVE ReplaceZ(_)
ReplaceZ(text) ==
    IF text = <<>> THEN <<>>
    ELSE IF Head(text) = "Z"
    THEN <<"+", "0", "0", ":", "0", "0">> \o ReplaceZ(Tail(text))
    ELSE <<Head(text)>> \o ReplaceZ(Tail(text))

\* Two digits at position p of s.
TwoDigits(s, p) == IsDigit(At(s, p)) /\ IsDigit(At(s, p + 1))

NoDatetime ==
    [ok |-> FALSE, day |-> 0, minute |-> 0, second |-> 0,
     aware |-> FALSE, utcoffset |-> 0]

\* The UTC offset written at position p of s, which ends the text.
IsoOffset(s, p) ==
    IF /\ At(s, p) \in {"+", "-"}
       /\ TwoDigits(s, p + 1) /\ At(s, p + 3) = ":" /\ TwoDigits(s, p + 4)
       /\ Len(s) = p + 5
       /\ NumAt(s, p + 1, 2) <= 23 /\ NumAt(s, p + 4, 2) <= 59
    THEN [ok |-> TRUE,
          val |-> (IF At(s, p) = "-" THEN -1 ELSE 1)
                     * (NumAt(s, p + 1, 2) * 60 + NumAt(s, p + 4, 2))]
    ELSE ParseFail

\* datetime.fromisoformat(s): ok = FALSE stands for ValueError.
FromIsoFormat(s) ==
    IF ~(/\ \A i \in 1..4 : IsDigit(At(s, i))
         /\ At(s, 5) = "-" /\ TwoDigits(s, 6)
         /\ At(s, 8) = "-" /\ TwoDigits(s, 9))
    THEN NoDatetime
    ELSE LET y == NumAt(s, 1, 4)
             m == NumAt(s, 6, 2)
             d == NumAt(s, 9, 2)
         IN  IF y < 1 \/ m < 1 \/ m > 12 \/ d < 1 THEN NoDatetime
             ELSE IF d > DaysInMonth(y, m) THEN NoDatetime
             ELSE IF Len(s) = 10
             THEN [ok |-> TRUE, day |-> Ordinal(y, m, d), minute |-> 0,
                   second |-> 0, aware |-> FALSE, utcoffset |-> 0]
             ELSE IF ~(TwoDigits(s, 12) /\ At(s, 14) = ":" /\ TwoDigits(s, 15))
             THEN NoDatetime
             ELSE IF NumAt(s, 12, 2) > 23 \/ NumAt(s, 15, 2) > 59 THEN NoDatetime
             ELSE LET seconds == At(s, 17) = ":" /\ TwoDigits(s, 18)
                      zp == IF seconds THEN 20 ELSE 17
                      offset == IsoOffset(s, zp)
                      sec == IF seconds THEN NumAt(s, 18, 2) ELSE 0
                  IN  IF sec > 59 THEN NoDatetime
                      ELSE IF Len(s) = zp - 1
                      THEN [ok |-> TRUE, day |-> Ordinal(y, m, d),
                            minute |-> NumAt(s, 12, 2) * 60 + NumAt(s, 15, 2),
                            second |-> sec, aware |-> FALSE, utcoffset |-> 0]
                      ELSE IF offset.ok
                      THEN [ok |-> TRUE, day |-> Ordinal(y, m, d),
                            minute |-> NumAt(s, 12, 2) * 60 + NumAt(s, 15, 2),
                            second |-> sec, aware |-> TRUE,
                            utcoffset |-> offset.val]
                      ELSE NoDatetime

_parse_google_datetime(raw_value) ==
    IF raw_value = None THEN NoDatetime
    ELSE FromIsoFormat(ReplaceZ(raw_value))

\* date.min and date.max as ordinals.
MinDay == 1

MaxDay == 3652059

\* The datetime moved by a number of minutes; ok = FALSE stands for the
\* OverflowError of a result outside datetime.min..datetime.max.
ShiftMinutes(dt, minutes) ==
    LET total == dt.minute + minutes
        day == dt.day + (IF total >= 0 THEN total \div MinutesPerDay
                         ELSE -((MinutesPerDay - 1 - total) \div MinutesPerDay))
    IN  IF day < MinDay \/ day > MaxDay
        THEN [ok |-> FALSE, day |-> 0, minute |-> 0, second |-> 0]
        ELSE [ok |-> TRUE, day |-> day, minute |-> total % MinutesPerDay,
              second |-> dt.second]

\* parsed.replace(tzinfo=local_timezone) for a naive value, else
\* parsed.astimezone(local_timezone): first to UTC, then to local time.
LocalOf(parsed) ==
    IF ~parsed.aware
    THEN [ok |-> TRUE, day |-> parsed.day, minute |-> parsed.minute,
          second |-> parsed.second]
    ELSE LET utc == ShiftMinutes(parsed, -parsed.utcoffset)
         IN  IF ~utc.ok THEN utc ELSE ShiftMinutes(utc, UtcOffset)

\* .replace(tzinfo=None) of a local datetime.
Naive(local) == [day |-> local.day, minute |-> local.minute, second |-> local.second]

NoInterval == [raised |-> FALSE, ok |-> FALSE, val |-> <<>>]

\* The all-day branch of the function.
AllDayInterval(start_info, end_info) ==
    IF start_info.date = None \/ start_info.date = <<>> THEN NoInterval
    ELSE IF end_info.date = None \/ end_info.date = <<>> THEN NoInterval
    ELSE LET start_day == _parse_iso_date_or_none(start_info.date)
             end_day == _parse_iso_date_or_none(end_info.date)
         IN  IF ~start_day.ok \/ ~end_day.ok THEN NoInterval
             ELSE [raised |-> FALSE, ok |-> TRUE,
                   val |-> <<[day |-> start_day.val, minute |-> 0, second |-> 0],
                             [day |-> end_day.val, minute |-> 0, second |-> 0]>>]

\* The dateTime branch: both values were parsed.
TimedInterval(start_datetime, end_datetime) ==
    LET start_local == LocalOf(start_datetime)
        end_local == LocalOf(end_datetime)
    IN  IF ~start_local.ok \/ ~end_local.ok
        THEN [raised |-> TRUE, ok |-> FALSE, val |-> <<>>]
        ELSE [raised |-> FALSE, ok |-> TRUE,
              val |-> <<Naive(start_local), Naive(end_local)>>]

\* _google_busy_interval on an item of the response: raised = TRUE stands
\* for an exception leaving the function, ok = FALSE for None.
BusyIntervalOfItem(event) ==
    IF ~event.start.dict \/ ~event.end.dict THEN NoInterval
    ELSE LET start_datetime == _parse_google_datetime(event.start.dateTime)
             end_datetime == _parse_google_datetime(event.end.dateTime)
         IN  IF start_datetime.ok /\ end_datetime.ok
             THEN TimedInterval(start_datetime, end_datetime)
             ELSE AllDayInterval(event.start, event.end)

\* A start or end value that is not a dictionary.
NotDict == [dict |-> FALSE, dateTime |-> None, date |-> None]

\* dateTime texts: none, UTC with Z, with an offset, without offset,
\* unparseable, and the first hour of year 1 in UTC.
DateTimeTexts ==
    {None,
     <<"2", "0", "2", "6", "-", "0", "2", "-", "2", "3", "T", "1", "7", ":", "0", "0", ":", "0", "0", "Z">>,
     <<"2", "0", "2", "6", "-", "0", "2", "-", "2", "3", "T", "0", "9", ":", "3", "0", ":", "0", "0", "-", "0", "8", ":", "0", "0">>,
     <<"2", "0", "2", "6", "-", "0", "2", "-", "2", "3", "T", "1", "0", ":", "0", "0", ":", "0", "0">>,
     <<"g", "a", "r", "b", "a", "g", "e">>,
     <<"0", "0", "0", "1", "-", "0", "1", "-", "0", "1", "T", "0", "0", ":", "0", "0", ":", "0", "0", "Z">>}

\* date texts: none, two days, and an unparseable one.
AllDayTexts ==
    {None,
     <<"2", "0", "2", "6", "-", "0", "2", "-", "2", "3">>,
     <<"2", "0", "2", "6", "-", "0", "2", "-", "2", "4">>,
     <<"g", "a", "r", "b", "a", "g", "e">>}

TimeInfos ==
    {NotDict} \cup
        {[dict |-> TRUE, dateTime |-> t, date |-> d] :
            t \in DateTimeTexts, d \in AllDayTexts}

InitInterval ==
    /\ session = AccessToken
    /\ calendar = {}
    /\ today \in TodayChoices
    /\ pc = [w \in Workers |-> "idle"]
    /\ att = [w \in Workers |-> NoAttempt]
    /\ nAttempts = 0
    /\ nExternal = 0
    /\ probe \in {[fn |-> "interval", start |-> a, end |-> b] :
                     a \in TimeInfos, b \in TimeInfos}
    /\ result = NoResult

\* _google_busy_interval(event, local_timezone)
CallBusyInterval ==
    /\ probe.fn = "interval"
    /\ ~result.done
    /\ result' = [done |-> TRUE, value |-> BusyIntervalOfItem(probe)]
    /\ UNCHANGED <<session, calendar, today, pc, att, nAttempts, nExternal, probe>>

NextInterval == CallBusyInterval

\* The timestamp normalisation called on items of every shape.
SpecInterval == InitInterval /\ [][NextInterval]_vars

(* ------------------------------------------------------------------ *)
(* Repeated requests                                                  *)
(*                                                                    *)
(* The first two requests that reach the provider read are recorded   *)
(* in result.value, each with what it was given (the request, the     *)
(* session it arrived with, the calendar at its read and whether the  *)
(* read succeeded) and what it answered.                              *)
(* ------------------------------------------------------------------ *)

\* History: the record list with rec added if fewer than two are held.
Recorded(res, rec) ==
    IF ~res.done THEN [done |-> TRUE, value |-> <<rec>>]
    ELSE IF Len(res.value) < 2 THEN [done |-> TRUE, value |-> Append(res.value, rec)]
    ELSE res

\* The query of the base booking.
BaseQuery ==
    [business_id |-> BaseForm.business_id, service_id |-> BaseForm.service_id,
     date |-> BaseForm.date]

\* The record of a view and its response.
ViewRecord(query, sess, cal, readOk, response) ==
    [kind |-> "view", request |-> query, sess |-> sess, cal |-> cal,
     readOk |-> readOk, outcome |-> response]

\* GET /schedule/data, recorded.
RunView(query, readOk) ==
    /\ ~result.done \/ Len(result.value) < 2
    /\ result' = Recorded(result,
                     ViewRecord(query, session, calendar, readOk,
                                PageResponse("schedule_data", query, session,
                                             calendar, readOk, today)))
    /\ UNCHANGED <<session, calendar, today, pc, att, nAttempts, nExternal, probe>>

\* The record of a booking attempt after its validation.
BookRecord(a, cal, readOk) ==
    [kind |-> "book", request |-> a.form, sess |-> a.sess, cal |-> cal,
     readOk |-> readOk,
     outcome |-> [phase |-> a.phase, reason |-> a.reason, chosen |-> a.chosen,
                  busy |-> a.busy, redirect |-> a.redirect]]

\* The variables after the validation of worker w's attempt gave a.
LoadStep(w, a, readOk) ==
    /\ att' = [att EXCEPT ![w] = a]
    /\ pc' = [pc EXCEPT ![w] = PcOf(a)]
    /\ result' = Recorded(result, BookRecord(a, calendar, readOk))

\* BookLoad, recorded.
RunBookLoad(w, readOk) ==
    /\ pc[w] = "load"
    /\ LoadStep(w, BookValidate(att[w], calendar, readOk), readOk)
    /\ UNCHANGED <<session, calendar, today, nAttempts, nExternal, probe>>

NextRuns ==
    \/ oauth2callback
    \/ logout
    \/ \E e \in ExternalEvents : ExternalChange(e)
    \/ \E readOk \in BOOLEAN : RunView(BaseQuery, readOk)
    \/ BookRequest("w1", BaseForm)
    \/ \E readOk \in BOOLEAN : RunBookLoad("w1", readOk)
    \/ \E writeOk \in BOOLEAN : BookWrite("w1", writeOk)

\* Views and bookings of one browser, one after the other, while the
\* calendar changes through the bookings and from outside.
SpecRuns == Init /\ [][NextRuns]_vars

(* ------------------------------------------------------------------ *)
(* A view and a booking against the same calendar                     *)
(* ------------------------------------------------------------------ *)

\* The query of the schedule view for the selection of a form.
QueryOfForm(form) ==
    [business_id |-> form.business_id, service_id |-> form.service_id,
     date |-> form.date]

\* History: the response GET /schedule/data gives for the selection of
\* attempt a0 with the calendar cal and the read outcome readOk.
ViewFor(a0, cal, readOk, todayValue) ==
    [done |-> TRUE,
     value |-> [id |-> a0.id,
                response |-> PageResponse("schedule_data", QueryOfForm(a0.form),
                                          a0.sess, cal, readOk, todayValue)]]

\* BookLoad, with the view of the same selection taken against the same
\* calendar and the same outcome of the provider read.
BookLoadBesideView(w, readOk) ==
    /\ pc[w] = "load"
    /\ LET a == BookValidate(att[w], calendar, readOk)
       IN  /\ att' = [att EXCEPT ![w] = a]
           /\ pc' = [pc EXCEPT ![w] = PcOf(a)]
    /\ result' = ViewFor(att[w], calendar, readOk, today)
    /\ UNCHANGED <<session, calendar, today, nAttempts, nExternal, probe>>

\* Posts whose start is a generated slot (09:00, 09:30, 10:30), a start
\* written without the leading zero, a start off the cadence, and a post
\* for a day the business is closed.
BesideForms ==
    {[BaseForm EXCEPT !.slot_start = c] :
        c \in {<<"0", "9", ":", "0", "0">>, <<"9", ":", "0", "0">>, <<"0", "9", ":", "3", "0">>, <<"0", "9", ":", "0", "7">>,
               <<"1", "0", ":", "3", "0">>}}
    \cup {[BaseForm EXCEPT !.date = <<"2", "0", "2", "6", "-", "0", "3", "-", "0", "1">>]}

NextBeside ==
    \/ oauth2callback
    \/ logout
    \/ \E e \in ExternalEvents : ExternalChange(e)
    \/ \E form \in BesideForms : BookRequest("w1", form)
    \/ \E readOk \in BOOLEAN : BookLoadBesideView("w1", readOk)
    \/ \E writeOk \in BOOLEAN : BookWrite("w1", writeOk)

\* One thread serving up to MaxAttempts posts of BesideForms, each
\* validation paired with the view of its selection.
SpecBeside == Init /\ [][NextBeside]_vars

(* ------------------------------------------------------------------ *)
(* Direct calls of the day clipping                                   *)
(* ------------------------------------------------------------------ *)

\* User busy periods around day d: one from the evening before until 09:15,
\* one over several days, the all-day event of the day before, the all-day
\* event of the day after, one inside the opening hours, one from the
\* afternoon past midnight, and the all-day event of the day itself.
ClipPeriodPool(d) ==
    {<<Combine(d - 1, 1380), Combine(d, 555)>>,
     <<Combine(d - 1, 720), Combine(d + 2, 720)>>,
     <<Combine(d - 1, 0), Combine(d, 0)>>,
     <<Combine(d + 1, 0), Combine(d + 2, 0)>>,
     <<Combine(d, 600), Combine(d, 630)>>,
     <<Combine(d, 960), Combine(d + 1, 60)>>,
     <<Combine(d, 0), Combine(d + 1, 0)>>}

ClipProbes ==
    UNION {{[fn |-> "clip", business_id |-> bs[1], service_id |-> bs[2],
             date |-> d, periods |-> PeriodList(S)] :
               bs \in CatalogPairs,
               S \in {T \in SUBSET ClipPeriodPool(d) : Cardinality(T) <= MaxPeriods}} :
           d \in ProbeDates}

InitClip ==
    /\ session = AccessToken
    /\ calendar = {}
    /\ today \in TodayChoices
    /\ pc = [w \in Workers |-> "idle"]
    /\ att = [w \in Workers |-> NoAttempt]
    /\ nAttempts = 0
    /\ nExternal = 0
    /\ probe \in ClipProbes
    /\ result = NoResult

\* The day's periods, and the slots built from them and from the whole list.
ClipOutcome(business, service, chosen_date, periods, day_periods) ==
    [clipped |-> day_periods,
     with |-> _build_business_day_slots(business, service, chosen_date,
                                        day_periods),
     without |-> _build_business_day_slots(business, service, chosen_date,
                                           periods)]

\* _busy_periods_for_day(periods, date), then _build_business_day_slots on
\* its result and on the periods as they were.
CallClip ==
    /\ probe.fn = "clip"
    /\ ~result.done
    /\ result' = [done |-> TRUE,
                  value |-> ClipOutcome(
                                ProbeBusiness, ProbeService, probe.date,
                                probe.periods,
                                _busy_periods_for_day(probe.periods,
                                                      probe.date))]
    /\ UNCHANGED <<session, calendar, today, pc, att, nAttempts, nExternal, probe>>

NextClip == CallClip

\* The day clipping called on dates and lists of busy periods.
SpecClip == InitClip /\ [][NextClip]_vars

(* ------------------------------------------------------------------ *)
(* Direct calls of the slot generator on service windows              *)
(* ------------------------------------------------------------------ *)

\* Service windows: one shorter than every duration, one of an hour, an
\* empty one, one starting off the quarter hour and one ending at 23:59.
WindowPool ==
    {[start |-> <<"0", "9", ":", "0", "0">>, end |-> <<"0", "9", ":", "2", "0">>],
     [start |-> <<"0", "9", ":", "0", "0">>, end |-> <<"1", "0", ":", "0", "0">>],
     [start |-> <<"0", "9", ":", "0", "0">>, end |-> <<"0", "9", ":", "0", "0">>],
     [start |-> <<"1", "6", ":", "1", "0">>, end |-> <<"1", "7", ":", "0", "0">>],
     [start |-> <<"2", "3", ":", "0", "0">>, end |-> <<"2", "3", ":", "5", "9">>]}

DurationPool == {15, 30, 45, 50}

\* Services handed to the generator: those of the catalog and one for each
\* window of WindowPool and duration of DurationPool.
WindowServices(business) ==
    {business.services[j] : j \in 1..Len(business.services)}
    \cup {[id |-> "window", name |-> "Window", duration |-> n,
           time_range |-> tr] : tr \in WindowPool, n \in DurationPool}

WindowProbes ==
    UNION {{[fn |-> "window", business |-> PULLMAN_BUSINESSES[i],
             service |-> v, date |-> d, periods |-> PeriodList(S)] :
               v \in WindowServices(PULLMAN_BUSINESSES[i]),
               S \in {T \in SUBSET PeriodPool(d) : Cardinality(T) < MaxPeriods}} :
           i \in 1..Len(PULLMAN_BUSINESSES), d \in ProbeDates}

InitWindow ==
    /\ session = AccessToken
    /\ calendar = {}
    /\ today \in TodayChoices
    /\ pc = [w \in Workers |-> "idle"]
    /\ att = [w \in Workers |-> NoAttempt]
    /\ nAttempts = 0
    /\ nExternal = 0
    /\ probe \in WindowProbes
    /\ result = NoResult

\* _build_business_day_slots(business, service, chosen_date, user_busy_periods)
CallBuildWindowSlots ==
    /\ probe.fn = "window"
    /\ ~result.done
    /\ result' = [done |-> TRUE,
                  value |-> _build_business_day_slots(
                                probe.business, probe.service,
                                probe.date, probe.periods)]
    /\ UNCHANGED <<session, calendar, today, pc, att, nAttempts, nExternal, probe>>

NextWindow == CallBuildWindowSlots

\* The slot generator called on service windows and durations.
SpecWindow == InitWindow /\ [][NextWindow]_vars

(* ------------------------------------------------------------------ *)
(* Direct calls of the home calendar's navigation                     *)
(* ------------------------------------------------------------------ *)

\* Days named by the start parameter: the first, fifteenth and twenty-eighth
\* of every month of MonthStarts and the days around both new years.
NavDays ==
    {ms + k : ms \in MonthStarts, k \in {0, 14, 27}}
    \cup {Ordinal(2026, 1, 1) + k : k \in -4..4}
    \cup {Ordinal(2027, 1, 1) + k : k \in -4..4}

\* The start parameter: absent, not a date, or the ISO text of a day.
NavStartTexts ==
    {None, <<"g", "a", "r", "b", "a", "g", "e">>}
    \cup {IsoFormat(d) : d \in NavDays}

NavViews == {"week", "month", "day", NoneId}

NavProbes ==
    {[fn |-> "nav", view |-> v, start |-> t] :
        v \in NavViews, t \in NavStartTexts}

InitNav ==
    /\ session = AccessToken
    /\ calendar = {}
    /\ today \in TodayChoices
    /\ pc = [w \in Workers |-> "idle"]
    /\ att = [w \in Workers |-> NoAttempt]
    /\ nAttempts = 0
    /\ nExternal = 0
    /\ probe \in NavProbes
    /\ result = NoResult

\* The period of the home view and its neighbours, with the starts reached
\* by stepping forth and back, and back and forth.
Navigation(selected_view, period_start) ==
    [selected_view |-> selected_view,
     period_start |-> period_start,
     period_end_exclusive |->
         _home_period_end_exclusive(selected_view, period_start),
     prev_start |-> _home_neighbor_start(selected_view, period_start, -1),
     next_start |-> _home_neighbor_start(selected_view, period_start, 1),
     next_then_prev |->
         _home_neighbor_start(
             selected_view,
             _home_neighbor_start(selected_view, period_start, 1), -1),
     prev_then_next |->
         _home_neighbor_start(
             selected_view,
             _home_neighbor_start(selected_view, period_start, -1), 1)]

\* The view of the request, then its period.
NavigationOfView(selected_view, raw_start, todayValue) ==
    Navigation(selected_view,
               _home_period_start(raw_start, selected_view, todayValue))

\* home's period computations for the view and start of the request.
CallHomeNavigation ==
    /\ probe.fn = "nav"
    /\ ~result.done
    /\ result' = [done |-> TRUE,
                  value |-> NavigationOfView(_home_calendar_view(probe.view),
                                             probe.start, today)]
    /\ UNCHANGED <<session, calendar, today, pc, att, nAttempts, nExternal, probe>>

NextNav == CallHomeNavigation

\* The home calendar's period functions called on views and start texts.
SpecNav == InitNav /\ [][NextNav]_vars

(* ------------------------------------------------------------------ *)
(* Bookings one after the other                                       *)
(* ------------------------------------------------------------------ *)

\* Posts for Monday at Crimson Cuts: the 30-minute service at 10:30, 10:45
\* and 11:00, and the 45-minute service at 10:30.
SequentialForms ==
    {[BaseForm EXCEPT !.slot_start = c] : c \in {<<"1", "0", ":", "3", "0">>, <<"1", "0", ":", "4", "5">>, <<"1", "1", ":", "0", "0">>}}
    \cup {[BaseForm EXCEPT !.service_id = "haircut-beard", !.slot_start = <<"1", "0", ":", "3", "0">>]}

NextSequential ==
    \/ oauth2callback
    \/ logout
    \/ \E e \in ExternalEvents : ExternalChange(e)
    \/ \E form \in SequentialForms : BookRequest("w1", form)
    \/ \E readOk \in BOOLEAN : BookLoad("w1", readOk)
    \/ \E writeOk \in BOOLEAN : BookWrite("w1", writeOk)

\* One thread serving up to MaxAttempts posts of SequentialForms, each
\* handled to its response before the next arrives.
SpecSequential == Init /\ [][NextSequential]_vars

(* ------------------------------------------------------------------ *)
(* Properties                                                         *)
(* ------------------------------------------------------------------ *)

\* The events on the calendar that attempt a inserted.
EventsOf(a) == {e \in calendar : e.id = a.id}

\* The interval [start, start + duration) the attempt asks for.
SlotStart(a) == a.start

SlotEnd(a) == a.start + ServiceOf(a).duration

\* The slot found for the requested start when the day's slots are generated
\* again from the busy periods this attempt loaded.
RevalidatedSlot(a) ==
    ChosenSlot(_build_business_day_slots(
                   BusinessOf(a), ServiceOf(a), a.date,
                   _busy_periods_for_day(a.busy, a.date)),
               a.form.slot_start)

PassedValidation(a) ==
    /\ a.loads = 1
    /\ LET r == RevalidatedSlot(a)
       IN  /\ r # <<>>
           /\ r[1].reason = "available"
           /\ Combine(a.date, _parse_clock(r[1].start_time).val) = a.start

LastFlash(a) == a.flashes[Len(a.flashes)]

C1_Shape ==
    \A w \in Workers :
        LET a == att[w]
            passed == PassedValidation(a)
        IN  /\ (pc[w] = "done") <=> (a.phase \in {"Committed", "Rejected"})
            /\ (a.phase = "Committed") => (a.reason = "none")
            /\ (a.phase = "Rejected") => (a.reason # "none")
            /\ (a.phase \in {"Validated", "Committed"}) => passed
            /\ (a.writes > 0) => passed
            /\ (a.phase = "Committed") => (a.writes = 1)
            /\ (~passed) => (a.writes = 0 /\ EventsOf(a) = {})
            /\ (a.phase \in {"None", "Requested", "Validated"}) => (a.writes = 0)

C1_Step ==
    \A w \in Workers :
        /\ (att'[w].phase = "Committed" /\ att[w] # att'[w])
              => (att[w].phase = "Validated" /\ att'[w].id = att[w].id)
        /\ (att'[w].phase = "Validated" /\ att[w] # att'[w])
              => (att[w].phase = "Requested" /\ att'[w].id = att[w].id)
        /\ (calendar' # calendar /\ pc[w] # pc'[w])
              => (att[w].phase = "Validated" /\ PassedValidation(att[w]))

\* C1: every booking attempt ends in exactly one of Committed or Rejected;
\* Committed is reached only from Validated and Validated only from
\* Requested; the calendar write is made only by an attempt for which the
\* slot regenerated from the busy periods that same attempt loaded matches
\* the requested start and has reason available, and on every other path
\* the attempt makes no write.  (A write that fails ends the attempt
\* Rejected with provider_error.)
C1_BookingStateMachine == [](C1_Shape) /\ [][C1_Step]_vars

\* An attempt was validated and committed, and its event is on the calendar.
C1_Witness ==
    \E w \in Workers :
        /\ att[w].phase = "Committed"
        /\ EventsOf(att[w]) # {}
        /\ PassedValidation(att[w])

\* Some busy period the attempt loaded overlaps the requested interval.
FreshUserOverlap(a) ==
    \E i \in 1..Len(a.busy) :
        SlotStart(a) < a.busy[i][2] /\ SlotEnd(a) > a.busy[i][1]

\* Some period of the business template overlaps the requested interval.
TemplateOverlap(a) ==
    LET tpl == _mock_busy_periods(BusinessOf(a).id, a.date)
    IN  \E i \in 1..Len(tpl) :
            SlotStart(a) < tpl[i][2] /\ SlotEnd(a) > tpl[i][1]

\* C2: when the submitted start is the start_time of a generated slot and a
\* busy period loaded during the attempt, or a period of the business
\* template, overlaps that slot, the attempt is Rejected as slot_taken with
\* the notice "Selected slot is no longer available. Pick another time." and
\* makes no provider write.
C2_StaleSlotRejected ==
    \A w \in Workers :
        LET a == att[w]
        IN  (a.loads = 1 /\ a.chosen # <<>>
               /\ (FreshUserOverlap(a) \/ TemplateOverlap(a)))
            => /\ a.phase = "Rejected"
               /\ a.reason = "slot_taken"
               /\ LastFlash(a).message =
                      "Selected slot is no longer available. Pick another time."
               /\ a.redirect.endpoint = "schedule"
               /\ a.writes = 0
               /\ EventsOf(a) = {}

\* A request for 09:00 was rejected because the user's calendar, read during
\* the attempt, holds an event over the slot.
C2_Witness ==
    \E w \in Workers :
        /\ att[w].reason = "slot_taken"
        /\ FreshUserOverlap(att[w])
        /\ ~TemplateOverlap(att[w])

SignedIn(a) == _has_google_session_credentials(a.sess)

\* The attempt carries the notice of a failed busy-period read.
ReadFailed(a) ==
    \E i \in 1..Len(a.flashes) :
        a.flashes[i].message =
            "Unable to check Google Calendar conflicts right now."

\* C3: whenever book_appointment writes an event to the user's calendar, at
\* the moment of that write the calendar holds no busy event overlapping the
\* slot's interval [start, start + duration), in every interleaving of
\* requests against the same calendar.
C3_SlotFreeAtCommit ==
    \A w \in Workers :
        (att[w].phase = "Committed") => ~att[w].overlapAtWrite

\* Two attempts ask for the same business, service, date and start.
SameSlot(a, b) ==
    /\ BusinessOf(a).id = BusinessOf(b).id
    /\ ServiceOf(a).id = ServiceOf(b).id
    /\ a.date = b.date
    /\ a.start = b.start

\* Both attempts read the calendar successfully, passed validation and
\* committed.
BothCommitted(a, b) ==
    /\ a.id # b.id
    /\ a.phase = "Committed" /\ b.phase = "Committed"
    /\ ~ReadFailed(a) /\ ~ReadFailed(b)
    /\ SameSlot(a, b)

\* C4: book_appointment reads, validates and writes with no lock, so two
\* attempts for the same (business, service, date, start) can both pass
\* validation and both write; whenever two such attempts have both committed,
\* each read the calendar before the other wrote, and the calendar holds one
\* event from each over the same interval.
C4_DoubleCommitLeavesTwoEvents ==
    \A w1 \in Workers, w2 \in Workers :
        LET a == att[w1]
            b == att[w2]
        IN  BothCommitted(a, b)
            => /\ ~FreshUserOverlap(a) /\ ~FreshUserOverlap(b)
               /\ \E ea \in EventsOf(a), eb \in EventsOf(b) :
                     /\ ea # eb
                     /\ ea.start = eb.start /\ ea.end = eb.end
                     /\ ToLocal(ea.start) = a.start
               /\ a.overlapAtWrite \/ b.overlapAtWrite

\* Two attempts for Monday 09:00 both read an empty calendar, both were
\* validated and both wrote: two overlapping booking events.
C4_Witness ==
    \E w1 \in Workers, w2 \in Workers :
        /\ BothCommitted(att[w1], att[w2])
        /\ att[w1].busy = <<>> /\ att[w2].busy = <<>>
        /\ Cardinality(EventsOf(att[w1]) \cup EventsOf(att[w2])) = 2

\* C5: a signed-in request whose slot_start is absent or is not an HH:MM
\* clock is Rejected as invalid_slot with the notice "Please choose a valid
\* time slot." before any busy-period read, and makes no provider write.
C5_MalformedSlotStart ==
    \A w \in Workers :
        LET a == att[w]
        IN  (a.id > 0 /\ SignedIn(a)
               /\ a.form.slot_start \in
                      {None, <<"n", "o", "t", "-", "a", "-", "c", "l", "o", "c", "k">>})
            => /\ pc[w] = "done"
               /\ a.phase = "Rejected"
               /\ a.reason = "invalid_slot"
               /\ a.flashes = <<InvalidSlotFlash>>
               /\ a.redirect.endpoint = "schedule"
               /\ a.loads = 0
               /\ a.writes = 0
               /\ EventsOf(a) = {}

C5_Witness ==
    \E w \in Workers :
        /\ SignedIn(att[w])
        /\ att[w].form.slot_start =
               <<"n", "o", "t", "-", "a", "-", "c", "l", "o", "c", "k">>
        /\ att[w].reason = "invalid_slot"
        /\ att[w].loads = 0

\* The form names no business of the catalog, or no service of the business
\* it names, or carries no valid ISO date.
Unresolvable(form) ==
    LET hits == {i \in 1..Len(PULLMAN_BUSINESSES) :
                    PULLMAN_BUSINESSES[i].id = form.business_id}
    IN  \/ hits = {}
        \/ \A i \in hits :
              \A j \in 1..Len(PULLMAN_BUSINESSES[i].services) :
                  PULLMAN_BUSINESSES[i].services[j].id # form.service_id
        \/ ~_parse_iso_date_or_none(form.date).ok

\* C6: a signed-in request whose business id, service id or date does not
\* parse or resolve ends Rejected with reason invalid_slot and no event is
\* created.
C6_UnresolvedRequestRejected ==
    \A w \in Workers :
        LET a == att[w]
        IN  (a.id > 0 /\ SignedIn(a) /\ pc[w] = "done" /\ Unresolvable(a.form))
            => /\ a.phase = "Rejected"
               /\ a.reason = "invalid_slot"
               /\ EventsOf(a) = {}

\* The requested start is a clock at which the business's day holds no slot
\* of the service: a closed weekday, a start before the window opens, an end
\* past the window's close, or a start off the 15-minute cadence.
NoSlotAtStart(a) ==
    LET requested == _parse_clock(a.form.slot_start)
        opening == _parse_clock(ServiceOf(a).time_range.start).val
        closing == _parse_clock(ServiceOf(a).time_range.end).val
    IN  /\ a.form.slot_start # None
        /\ requested.ok
        /\ \/ Weekday(a.date) \notin BusinessOf(a).open_weekdays
           \/ requested.val < opening
           \/ requested.val + ServiceOf(a).duration > closing
           \/ (requested.val - opening) % SlotStep # 0

\* C7: a signed-in request whose slot_start is a clock at which no slot is
\* generated for the business, service and date is Rejected as invalid_slot
\* once the day's slots have been regenerated, is never validated or reported
\* as slot_taken, and makes no provider write.
C7_NoMatchingSlot ==
    \A w \in Workers :
        LET a == att[w]
        IN  (a.id > 0 /\ SignedIn(a) /\ NoSlotAtStart(a))
            => /\ a.phase \in {"Requested", "Rejected"}
               /\ (a.phase = "Requested") => (a.loads = 0)
               /\ (a.phase = "Rejected")
                     => /\ a.reason = "invalid_slot"
                        /\ a.loads = 1
                        /\ a.chosen = <<>>
                        /\ LastFlash(a).message =
                               "Selected slot is invalid for the chosen service."
                        /\ a.redirect.endpoint = "schedule"
               /\ a.writes = 0
               /\ EventsOf(a) = {}

\* A request for a Sunday, when the business is closed, was rejected as
\* invalid_slot after the slots were regenerated.
C7_Witness ==
    \E w \in Workers :
        /\ SignedIn(att[w])
        /\ NoSlotAtStart(att[w])
        /\ Weekday(att[w].date) \notin BusinessOf(att[w]).open_weekdays
        /\ att[w].reason = "invalid_slot"
        /\ att[w].loads = 1

\* C8: an attempt makes at most one provider write; when the write of a
\* validated attempt fails the attempt ends Rejected with provider_error and
\* the calendar holds no event from it; when the write succeeds the attempt
\* ends Committed, the calendar holds its one event over the slot, and the
\* confirmation names the service and the local day and time of the slot.
C8_WriteOutcome ==
    \A w \in Workers :
        LET a == att[w]
        IN  /\ a.writes <= 1
            /\ (a.writes = 1) <=> (a.phase = "Committed" \/ a.reason = "provider_error")
            /\ (a.reason = "provider_error")
                  => /\ a.phase = "Rejected"
                     /\ pc[w] = "done"
                     /\ EventsOf(a) = {}
                     /\ LastFlash(a).category = "error"
                     /\ LastFlash(a).message =
                            "Could not create Google Calendar appointment. Try again."
            /\ (a.phase = "Committed")
                  => /\ Cardinality(EventsOf(a)) = 1
                     /\ \A e \in EventsOf(a) :
                           /\ ToLocal(e.start) = a.start
                           /\ ToLocal(e.end) = a.start + ServiceOf(a).duration
                     /\ LastFlash(a).category = "success"
                     /\ LastFlash(a).detail =
                            <<ServiceOf(a).name, DayLabel(a.start \div MinutesPerDay),
                              a.chosen[1].label[1]>>

\* A validated attempt's write failed: provider_error after one write, and
\* nothing from the attempt on the calendar.
C8_Witness ==
    \E w \in Workers :
        /\ att[w].reason = "provider_error"
        /\ att[w].writes = 1
        /\ EventsOf(att[w]) = {}

\* A provider call of the attempt failed: the read of the user's busy
\* periods or the event write.
ProviderCallFailed(a) == ReadFailed(a) \/ a.reason = "provider_error"

\* C9: if a provider call made during a booking attempt fails, the read of
\* the user's busy periods or the event write, the attempt ends Rejected and
\* no event is created on the user's calendar.
C9_ProviderErrorBlocksCommit ==
    \A w \in Workers :
        LET a == att[w]
        IN  (a.id > 0 /\ ProviderCallFailed(a))
            => /\ a.phase # "Committed"
               /\ (pc[w] = "done") => (a.phase = "Rejected")
               /\ EventsOf(a) = {}

\* Minutes after midnight of an HH:MM text of a generated slot.
ClockOf(text) == _parse_clock(text).val

\* C10: every slot returned by _build_business_day_slots ends duration
\* minutes after it starts, starts no earlier than the service window opens
\* and ends no later than the window closes.
C10_SlotWithinWindow ==
    result.done =>
        \A i \in 1..Len(result.value) :
            LET slot == result.value[i]
                opening == ClockOf(ProbeService.time_range.start)
                closing == ClockOf(ProbeService.time_range.end)
            IN  /\ _parse_clock(slot.start_time).ok
                /\ _parse_clock(slot.end_time).ok
                /\ ClockOf(slot.end_time) =
                       ClockOf(slot.start_time) + ProbeService.duration
                /\ opening <= ClockOf(slot.start_time)
                /\ ClockOf(slot.end_time) <= closing

\* The generator returned a day whose last slot ends at the window's close.
C10_Witness ==
    /\ result.done
    /\ result.value # <<>>
    /\ ClockOf(result.value[Len(result.value)].end_time) =
           ClockOf(ProbeService.time_range.end)

\* The interval of a generated slot of the probed day, from its HH:MM texts.
ProbeSlotStart(slot) == Combine(probe.date, ClockOf(slot.start_time))

ProbeSlotEnd(slot) == Combine(probe.date, ClockOf(slot.end_time))

\* Some period of the list shares a positive-length interval with [s, e).
Overlapped(s, e, periods) ==
    \E i \in 1..Len(periods) : s < periods[i][2] /\ e > periods[i][1]

\* C11: for every generated slot, reason is available exactly when bookable
\* is true, bookable is business_free and user_free, and status_label is the
\* fixed label of the reason: available -> "Available (both free)",
\* user_busy -> "Unavailable - You are busy", business_busy ->
\* "Unavailable - Business is busy", both_busy -> "Unavailable - Both busy".
C11_ReasonBookableLabel ==
    result.done =>
        \A i \in 1..Len(result.value) :
            LET slot == result.value[i]
            IN  /\ slot.reason \in
                       {"available", "user_busy", "business_busy", "both_busy"}
                /\ (slot.reason = "available") <=> slot.bookable
                /\ slot.bookable <=> (slot.business_free /\ slot.user_free)
                /\ slot.available = slot.bookable
                /\ slot.status_label =
                       (CASE slot.reason = "available" -> "Available (both free)"
                          [] slot.reason = "user_busy" -> "Unavailable - You are busy"
                          [] slot.reason = "business_busy" ->
                                 "Unavailable - Business is busy"
                          [] slot.reason = "both_busy" -> "Unavailable - Both busy")
                /\ slot.status = slot.status_label

\* One generated day holds a slot of each of the four reasons.
C11_Witness ==
    /\ result.done
    /\ \A r \in {"available", "user_busy", "business_busy", "both_busy"} :
           \E i \in 1..Len(result.value) : result.value[i].reason = r

\* C12: business_free is false exactly when a busy period of the business
\* overlaps the slot (start < busyEnd and end > busyStart), user_free is
\* false exactly when a busy period of the user does, each independently of
\* the other, and reason is both_busy, business_busy, user_busy or available
\* as both, only the business, only the user or neither overlaps.
C12_SlotClassification ==
    result.done =>
        \A i \in 1..Len(result.value) :
            LET slot == result.value[i]
                s == ProbeSlotStart(slot)
                e == ProbeSlotEnd(slot)
                b == Overlapped(s, e, _mock_busy_periods(ProbeBusiness.id,
                                                         probe.date))
                u == Overlapped(s, e, probe.periods)
            IN  /\ slot.business_free = ~b
                /\ slot.user_free = ~u
                /\ (b /\ u) => slot.reason = "both_busy"
                /\ (b /\ ~u) => slot.reason = "business_busy"
                /\ (~b /\ u) => slot.reason = "user_busy"
                /\ (~b /\ ~u) => slot.reason = "available"

\* A slot overlapped by a period of the business and by one of the user.
C12_Witness ==
    /\ result.done
    /\ \E i \in 1..Len(result.value) :
          /\ result.value[i].reason = "both_busy"
          /\ Overlapped(ProbeSlotStart(result.value[i]),
                        ProbeSlotEnd(result.value[i]), probe.periods)

\* Every period of the list ends by s or starts at or after e.
BackToBackOrApart(s, e, periods) ==
    \A i \in 1..Len(periods) : e <= periods[i][1] \/ s >= periods[i][2]

\* C13: a slot whose end equals a busy period's start, or whose start equals
\* a busy period's end, is free with respect to that period; a slot sharing a
\* positive-length interval with a busy period conflicts with it.
C13_BoundaryPolicy ==
    result.done =>
        \A i \in 1..Len(result.value) :
            LET slot == result.value[i]
                s == ProbeSlotStart(slot)
                e == ProbeSlotEnd(slot)
                tpl == _mock_busy_periods(ProbeBusiness.id, probe.date)
            IN  /\ BackToBackOrApart(s, e, probe.periods) => slot.user_free
                /\ BackToBackOrApart(s, e, tpl) => slot.business_free
                /\ (\E k \in 1..Len(probe.periods) :
                       LET lo == IF s >= probe.periods[k][1]
                                 THEN s ELSE probe.periods[k][1]
                           hi == IF e <= probe.periods[k][2]
                                 THEN e ELSE probe.periods[k][2]
                       IN  lo < hi) => ~slot.user_free
                /\ (\E k \in 1..Len(tpl) :
                       LET lo == IF s >= tpl[k][1] THEN s ELSE tpl[k][1]
                           hi == IF e <= tpl[k][2] THEN e ELSE tpl[k][2]
                       IN  lo < hi) => ~slot.business_free

\* A free slot starting exactly when a user period ends, and a free slot
\* ending exactly when a period of the business starts.
C13_Witness ==
    /\ result.done
    /\ \E i \in 1..Len(result.value), k \in 1..Len(probe.periods) :
          /\ ProbeSlotStart(result.value[i]) = probe.periods[k][2]
          /\ result.value[i].user_free
    /\ LET tpl == _mock_busy_periods(ProbeBusiness.id, probe.date)
       IN  \E i \in 1..Len(result.value), k \in 1..Len(tpl) :
              /\ ProbeSlotEnd(result.value[i]) = tpl[k][1]
              /\ result.value[i].business_free

\* C14: on a date whose weekday is not in the business's open_weekdays
\* _build_business_day_slots returns the empty list, whatever the busy
\* periods of the user and of the business.
C14_ClosedWeekdayEmpty ==
    (result.done /\ Weekday(probe.date) \notin ProbeBusiness.open_weekdays)
        => result.value = <<>>

\* The generator was called for a closed day with user busy periods given.
C14_Witness ==
    /\ result.done
    /\ Weekday(probe.date) \notin ProbeBusiness.open_weekdays
    /\ probe.periods # <<>>
    /\ result.value = <<>>

\* The date of a suggestion, read back from its ISO text.
SuggestionDate(suggestion) == _parse_iso_date_or_none(suggestion.date).val

\* C15: _next_bookable_slots_in_week returns at most limit suggestions, each
\* dated on or after the selected date and on or before the Sunday of the
\* selected date's week.
C15_SuggestionsBounded ==
    result.done =>
        /\ Len(result.value) <= probe.limit
        /\ \A i \in 1..Len(result.value) :
              /\ _parse_iso_date_or_none(result.value[i].date).ok
              /\ probe.date <= SuggestionDate(result.value[i])
              /\ SuggestionDate(result.value[i])
                     <= probe.date - Weekday(probe.date) + 6
              /\ Weekday(SuggestionDate(result.value[i])) >= Weekday(probe.date)

\* A call for a Saturday with nothing bookable left on it: the suggestions,
\* limit of them, are all of the Sunday that ends the week.
C15_Witness ==
    /\ result.done
    /\ Weekday(probe.date) = 5
    /\ result.value # <<>>
    /\ \A i \in 1..Len(result.value) :
          SuggestionDate(result.value[i]) = probe.date + 1
    /\ Len(result.value) = probe.limit

\* The bookable slots of day d for the probed business and service, counted
\* from the day's own slot list.
ProbeDayCount(d) ==
    LET day_slots == _build_business_day_slots(
                         ProbeBusiness, ProbeService, d,
                         _busy_periods_for_day(probe.periods, d))
    IN  Cardinality({i \in 1..Len(day_slots) :
                        day_slots[i].reason = "available"})

\* C16: _build_week_preview returns 7 entries for the consecutive dates
\* Monday..Sunday of the selected date's week; each carries the day's count
\* of bookable slots and is closed when the weekday is not open (whatever
\* the count), else full for a count of 0, limited for 0 < count < 5 and
\* open for count >= 5; exactly one entry is selected, that of the selected
\* date.
C16_WeekPreview ==
    result.done =>
        /\ Len(result.value) = 7
        /\ \A k \in 1..7 :
              LET entry == result.value[k]
                  d == probe.date - Weekday(probe.date) + (k - 1)
                  n == entry.available_count
              IN  /\ Weekday(d) = k - 1
                  /\ entry.date = IsoFormat(d)
                  /\ _parse_iso_date_or_none(entry.date).val = d
                  /\ n = ProbeDayCount(d)
                  /\ entry.status =
                        (IF Weekday(d) \notin ProbeBusiness.open_weekdays
                         THEN "closed"
                         ELSE IF n = 0 THEN "full"
                         ELSE IF n < 5 THEN "limited"
                         ELSE "open")
                  /\ entry.is_selected <=> (d = probe.date)
        /\ Cardinality({k \in 1..7 : result.value[k].is_selected}) = 1

\* A strip for a mid-week date holding a closed, a full, a limited and an
\* open day.
C16_Witness ==
    /\ result.done
    /\ Weekday(probe.date) \in 1..5
    /\ \A st \in {"closed", "full", "limited", "open"} :
          \E k \in 1..7 : result.value[k].status = st

\* C17: _load_user_busy_periods_for_window never fails: with no credentials
\* in the session it returns the empty list and no notice; when the provider
\* read raises it returns the empty list and the one notice "Unable to check
\* Google Calendar conflicts right now."; no exception reaches the caller.
C17_BusyReadNeverFails ==
    result.done =>
        /\ ~result.value.raised
        /\ (session = NoCredentials)
              => (result.value.periods = <<>> /\ result.value.flashes = <<>>)
        /\ (session # NoCredentials /\ ~result.readOk)
              => /\ result.value.periods = <<>>
                 /\ Len(result.value.flashes) = 1
                 /\ result.value.flashes[1].category = "error"
                 /\ result.value.flashes[1].message =
                        "Unable to check Google Calendar conflicts right now."
        /\ (session # NoCredentials /\ result.readOk)
              => result.value.flashes = <<>>

\* The provider read raised while the calendar held a busy event of the
\* week: the empty list and the notice came back.
C17_Witness ==
    /\ result.done
    /\ session = AccessToken
    /\ ~result.readOk
    /\ \E e \in calendar : e.id = 101
    /\ result.value.periods = <<>>
    /\ Len(result.value.flashes) = 1

\* C18: _selected_business returns the catalog's business with the given id
\* when there is one and the first business otherwise; for that business
\* _selected_business_service returns its service with the given id when it
\* has one and its first service otherwise, so the service returned always
\* belongs to the business returned.
C18_CatalogLookup ==
    result.done =>
        LET b == result.value.business
            v == result.value.service
            known == {i \in 1..Len(PULLMAN_BUSINESSES) :
                         PULLMAN_BUSINESSES[i].id = probe.business_id}
            own == {j \in 1..Len(b.services) :
                       b.services[j].id = probe.service_id}
        IN  /\ \E i \in 1..Len(PULLMAN_BUSINESSES) : b = PULLMAN_BUSINESSES[i]
            /\ (known # {}) => b.id = probe.business_id
            /\ (known = {}) => b = PULLMAN_BUSINESSES[1]
            /\ \E j \in 1..Len(b.services) : v = b.services[j]
            /\ (own # {}) => v.id = probe.service_id
            /\ (own = {}) => v = b.services[1]

\* A known business asked for a service of another business: its own first
\* service came back.
C18_Witness ==
    /\ result.done
    /\ result.value.business.id = probe.business_id
    /\ \E bs \in CatalogPairs :
          bs[2] = probe.service_id /\ bs[1] # probe.business_id
    /\ result.value.service = result.value.business.services[1]
    /\ result.value.service.id # probe.service_id

\* The session a request arrived with carries no token.
NoToken(sess) == sess = NoCredentials

\* Requests that arrived without a token were turned away untouched.
C19_Gate ==
    /\ (result.done /\ NoToken(result.value.sess))
          => /\ result.value.kind = "redirect"
             /\ result.value.redirect = Redirect("index", NoQuery)
             /\ result.value.flashes = <<SignInFlash>>
             /\ result.value.reads = 0
             /\ result.value.writes = 0
             /\ result.value.context = NoContext
    /\ \A w \in Workers :
          LET a == att[w]
          IN  (a.id > 0 /\ NoToken(a.sess))
              => /\ a.phase = "Rejected"
                 /\ a.reason = "signed_out"
                 /\ a.redirect = Redirect("index", NoQuery)
                 /\ a.flashes = <<SignInFlash>>
                 /\ a.loads = 0
                 /\ a.writes = 0
                 /\ EventsOf(a) = {}

\* A request is handled with the session as it is when the request arrives,
\* and the calendar gains no booking event in a step that starts a request
\* or serves a page.
C19_Step ==
    /\ \A w \in Workers :
          (att'[w].id # att[w].id) => (att'[w].sess = session)
    /\ (result' # result) => (result'.value.sess = session /\ calendar' = calendar)
    /\ (session = NoCredentials /\ nAttempts' # nAttempts) => (calendar' = calendar)

\* C19: a request arriving with a session that has no usable token (never
\* signed in, or after logout removed the credentials) is redirected to the
\* landing page by home, schedule, schedule/data and appointments alike,
\* with the notice "Sign in with Google to continue." and without a provider
\* read or write; a booking request made between a logout and the next
\* sign-in therefore creates no event.
C19_SignedOutGating == [](C19_Gate) /\ [][C19_Step]_vars

\* After a logout, a page request and a booking request were both turned
\* away while the calendar held an earlier booking of the same browser.
C19_Witness ==
    /\ session = NoCredentials
    /\ result.done
    /\ NoToken(result.value.sess)
    /\ result.value.endpoint = "schedule_data"
    /\ att["w1"].id = 2
    /\ att["w1"].reason = "signed_out"
    /\ \E e \in calendar : e.id = 1

\* The input events with the given day_iso, as positions of the input list.
EventsOfDay(day_iso) ==
    {i \in 1..Len(probe.events) : probe.events[i].day_iso = day_iso}

\* The sort key the claim names, for an event of a column.
ColumnKey(e) == <<e.sort_key, Lower(e.title)>>

\* C20: _home_week_columns returns 7 columns for week_start..week_start+6 in
\* order; each column holds exactly the input events whose day_iso is its
\* date, so an event of a day outside the week or without a day is in no
\* column; within a column the events are in ascending order of
\* (sort_key, lower-cased title).
C20_WeekColumns ==
    result.done =>
        /\ Len(result.value) = 7
        /\ \A k \in 1..7 :
              LET column == result.value[k]
                  mine == EventsOfDay(IsoFormat(probe.date + (k - 1)))
              IN  /\ column.day_iso = IsoFormat(probe.date + (k - 1))
                  /\ _parse_iso_date_or_none(column.day_iso).val
                         = probe.date + (k - 1)
                  /\ Len(column.events) = Cardinality(mine)
                  /\ \A i \in mine :
                        \E j \in 1..Len(column.events) :
                            column.events[j] = HomeDayEvent(probe.events[i])
                  /\ \A j \in 1..Len(column.events) :
                        \E i \in mine :
                            column.events[j] = HomeDayEvent(probe.events[i])
                  /\ \A j \in 1..(Len(column.events) - 1) :
                        LET k1 == ColumnKey(column.events[j])
                            k2 == ColumnKey(column.events[j + 1])
                        IN  \/ k1[1] < k2[1]
                            \/ k1[1] = k2[1] /\ (k1[2] = k2[2]
                                                 \/ TextLess(k1[2], k2[2]))
        /\ LET placed == Len(result.value[1].events) + Len(result.value[2].events)
                         + Len(result.value[3].events) + Len(result.value[4].events)
                         + Len(result.value[5].events) + Len(result.value[6].events)
                         + Len(result.value[7].events)
           IN  placed = Cardinality({i \in 1..Len(probe.events) :
                                        \E k \in 0..6 :
                                            probe.events[i].day_iso
                                                = IsoFormat(probe.date + k)})

\* The events titled "C" then "a" of the same day and time came back as
\* "a" then "C" in the first column, and nothing else was placed.
C20_Witness ==
    /\ result.done
    /\ Len(probe.events) = 2
    /\ probe.events[1].title = <<"C">>
    /\ probe.events[2].title = <<"a">>
    /\ Len(result.value[1].events) = 2
    /\ result.value[1].events[1].title = <<"a">>
    /\ result.value[1].events[2].title = <<"C">>

\* The (date, start minute) of the bookable slots of the probed business and
\* service on the days from the selected date through the Sunday of its week.
WeekBookable ==
    UNION {LET day_slots == _build_business_day_slots(
                                ProbeBusiness, ProbeService, d,
                                _busy_periods_for_day(probe.periods, d))
           IN  {<<d, _parse_clock(day_slots[i].start_time).val>> :
                    i \in {j \in 1..Len(day_slots) : day_slots[j].bookable}} :
           d \in probe.date..(probe.date - Weekday(probe.date) + 6)}

\* (date, start) of p is earlier than that of q.
Earlier(p, q) == p[1] < q[1] \/ (p[1] = q[1] /\ p[2] < q[2])

\* The (date, start minute) of a suggestion, read back from its texts.
SuggestionKey(suggestion) ==
    <<SuggestionDate(suggestion), _parse_clock(suggestion.start_time).val>>

\* The suggestions are in strictly increasing order and are the first
\* min(limit, N) of the N slots of bookable.
FirstOfBookable(suggestions, bookable, limit) ==
    /\ \A i \in 1..(Len(suggestions) - 1) :
          Earlier(SuggestionKey(suggestions[i]), SuggestionKey(suggestions[i + 1]))
    /\ LET keys == {SuggestionKey(suggestions[i]) : i \in 1..Len(suggestions)}
       IN  /\ keys \subseteq bookable
           /\ \A p \in bookable \ keys : \A k \in keys : Earlier(k, p)
    /\ Len(suggestions)
          = (IF limit <= Cardinality(bookable) THEN limit
             ELSE Cardinality(bookable))

\* C21: _next_bookable_slots_in_week returns suggestions in strictly
\* increasing (date, start) order, and they are the first min(limit, N) of
\* the N bookable slots of the days from the selected date through the
\* Sunday of its week; fewer than limit are returned only when N < limit.
C21_SuggestionsCompleteInOrder ==
    result.done => FirstOfBookable(result.value, WeekBookable, probe.limit)

\* A call whose suggestions, limit of them, run over two days while the week
\* has more bookable slots than the limit.
C21_Witness ==
    /\ result.done
    /\ Len(result.value) = probe.limit
    /\ probe.limit >= 2
    /\ SuggestionDate(result.value[1]) = probe.date
    /\ SuggestionDate(result.value[Len(result.value)]) > probe.date
    /\ Cardinality(WeekBookable) > probe.limit

\* A call that returns fewer suggestions than the limit, but not none.
C21_WitnessShortWeek ==
    /\ result.done
    /\ 0 < Len(result.value)
    /\ Len(result.value) < probe.limit

\* The date of a month cell, read back from its ISO text.
CellDate(cell) == _parse_iso_date_or_none(cell.day_iso).val

\* The last day of the month that starts at month_start.
MonthLastDay(month_start) ==
    month_start + DaysInMonth(YearOf(month_start), MonthOf(month_start)) - 1

\* The input events of the cell's day.
CellEventCount(cell) ==
    Cardinality({i \in 1..Len(probe.events) :
                    probe.events[i].day_iso = cell.day_iso})

\* C22: _home_month_cells returns whole weeks covering the month: the first
\* cell is a Monday on or before the 1st, the last a Sunday on or after the
\* last day of the month, the cells are consecutive dates, their count is a
\* multiple of 7, every day of the month appears exactly once with
\* is_in_month true, and each cell shows at most 3 events with
\* extra_count = max(0, number of the day's events - 3).
C22_MonthCells ==
    result.done =>
        LET cells == result.value
            n == Len(cells)
        IN  /\ n > 0
            /\ n % 7 = 0
            /\ Weekday(CellDate(cells[1])) = 0
            /\ CellDate(cells[1]) <= probe.date
            /\ Weekday(CellDate(cells[n])) = 6
            /\ CellDate(cells[n]) >= MonthLastDay(probe.date)
            /\ \A k \in 1..(n - 1) : CellDate(cells[k + 1]) = CellDate(cells[k]) + 1
            /\ \A d \in probe.date..MonthLastDay(probe.date) :
                  /\ Cardinality({k \in 1..n : CellDate(cells[k]) = d}) = 1
                  /\ \A k \in 1..n : CellDate(cells[k]) = d => cells[k].is_in_month
            /\ \A k \in 1..n :
                  /\ Len(cells[k].events) <= 3
                  /\ Len(cells[k].events) + cells[k].extra_count
                        = CellEventCount(cells[k])
                  /\ cells[k].extra_count
                        = (IF CellEventCount(cells[k]) > 3
                           THEN CellEventCount(cells[k]) - 3 ELSE 0)

\* A six-row grid whose last day of the month holds four events: the cell
\* shows three and counts one more.
C22_Witness ==
    /\ result.done
    /\ Len(result.value) = 42
    /\ \E k \in 1..Len(result.value) :
          /\ CellDate(result.value[k]) = MonthLastDay(probe.date)
          /\ Len(result.value[k].events) = 3
          /\ result.value[k].extra_count = 1
    /\ CellDate(result.value[1]) < probe.date
    /\ CellDate(result.value[42]) > MonthLastDay(probe.date)

\* The local interval an event of the calendar stands for.
LocalInterval(e) ==
    IF e.shape = "zoned" THEN <<e.start + UtcOffset, e.end + UtcOffset>>
    ELSE IF e.shape = "allday"
    THEN <<e.start * MinutesPerDay, e.end * MinutesPerDay>>
    ELSE <<e.start, e.end>>

\* C23: the live busy-period read returns no interval of a cancelled or
\* transparent event, every returned interval has start < end, and every
\* returned interval overlaps the requested window (start < window_end and
\* end > window_start), although the provider is asked for a day more on
\* each side.
C23_BusyReadFiltered ==
    result.done =>
        \A i \in 1..Len(result.value) :
            /\ \E e \in calendar :
                  /\ e.shape # "none"
                  /\ e.status # "cancelled"
                  /\ e.transparency # "transparent"
                  /\ result.value[i] = LocalInterval(e)
            /\ \A e \in calendar :
                  (e.status = "cancelled" \/ e.transparency = "transparent")
                      => result.value[i] # LocalInterval(e)
            /\ result.value[i][1] < result.value[i][2]
            /\ result.value[i][1] < probe.window_end
            /\ result.value[i][2] > probe.window_start

\* A read of Monday alone against the whole of BusyEvents: the provider's
\* margin takes in the Sunday event and the cancelled, transparent, empty and
\* inverted ones lie in the window too, yet the result is the appointment,
\* the event without offset and the late call.
C23_Witness ==
    /\ result.done
    /\ calendar = BusyEvents
    /\ probe.window_start = Combine(Monday, 0)
    /\ probe.window_end = Combine(Monday + 1, 0)
    /\ result.value = <<<<Combine(Monday, 540), Combine(Monday, 570)>>,
                        <<Combine(Monday, 840), Combine(Monday, 900)>>,
                        <<Combine(Monday, 1410), Combine(Monday + 1, 30)>>>>

\* Both dateTime texts of the probed item are parsed.
BothTimed ==
    /\ probe.start.dict /\ probe.end.dict
    /\ _parse_google_datetime(probe.start.dateTime).ok
    /\ _parse_google_datetime(probe.end.dateTime).ok

\* Both all-day dates of the probed item are parsed.
BothAllDay ==
    /\ probe.start.dict /\ probe.end.dict
    /\ _parse_iso_date_or_none(probe.start.date).ok
    /\ _parse_iso_date_or_none(probe.end.date).ok

\* C24: _google_busy_interval never raises: an item with both start and end
\* dateTime yields a local naive interval, otherwise one with both all-day
\* dates yields [start day 00:00, end day 00:00), and any other shape
\* yields None.
C24_BusyIntervalNeverRaises ==
    result.done =>
        /\ ~result.value.raised
        /\ BothTimed => result.value.ok
        /\ (~BothTimed /\ BothAllDay) =>
              /\ result.value.ok
              /\ result.value.val[1].minute = 0 /\ result.value.val[2].minute = 0
        /\ (~BothTimed /\ ~BothAllDay) => ~result.value.ok

\* Apart from raising, the shapes are handled as stated: an item that did
\* not raise yields an interval exactly when both dateTime values or, failing
\* that, both all-day dates are parsed.
BusyIntervalShapes ==
    (result.done /\ ~result.value.raised) =>
        /\ result.value.ok <=> (BothTimed \/ BothAllDay)
        /\ (result.value.ok /\ ~BothTimed) =>
              /\ result.value.val[1]
                    = [day |-> _parse_iso_date_or_none(probe.start.date).val,
                       minute |-> 0, second |-> 0]
              /\ result.value.val[2]
                    = [day |-> _parse_iso_date_or_none(probe.end.date).val,
                       minute |-> 0, second |-> 0]

\* Two recorded runs were given the same request, session, calendar and
\* read outcome.
SameInputs(r1, r2) ==
    /\ r1.kind = r2.kind
    /\ r1.request = r2.request
    /\ r1.sess = r2.sess
    /\ r1.cal = r2.cal
    /\ r1.readOk = r2.readOk

C25_SameInputsSameOutcome ==
    (result.done /\ Len(result.value) = 2 /\ SameInputs(result.value[1], result.value[2]))
        => result.value[1].outcome = result.value[2].outcome

C25_RejectedLeavesCalendar ==
    \A w \in Workers :
        (att'[w] # att[w] /\ att'[w].phase = "Rejected") => calendar' = calendar

CommittedBefore(a) ==
    {<<e.start + UtcOffset, e.end + UtcOffset>> :
        e \in {x \in calendar : x.id >= 1 /\ x.id < a.id}}

\* Attempt a, signed in and asking for a generated slot, has read the
\* calendar successfully.
ReadTheCalendar(a) ==
    /\ a.loads = 1
    /\ SignedIn(a)
    /\ ~ReadFailed(a)
    /\ a.chosen # <<>>

\* C26: once a booking is committed for [s, e), every later attempt of the
\* same user for a slot overlapping [s, e), whose read reflects the earlier
\* write, is Rejected as slot_taken and writes nothing; an attempt for a slot
\* starting exactly at e or ending exactly at s passes validation when the
\* slot is otherwise free.
C26_NoSequentialDoubleBooking ==
    \A w \in Workers :
        LET a == att[w]
            overlapping == {iv \in CommittedBefore(a) :
                               SlotStart(a) < iv[2] /\ SlotEnd(a) > iv[1]}
            touching == {iv \in CommittedBefore(a) :
                            SlotStart(a) = iv[2] \/ SlotEnd(a) = iv[1]}
        IN  /\ (ReadTheCalendar(a) /\ overlapping # {})
                  => /\ a.phase = "Rejected"
                     /\ a.reason = "slot_taken"
                     /\ a.writes = 0
                     /\ EventsOf(a) = {}
            /\ (ReadTheCalendar(a) /\ touching # {} /\ overlapping = {}
                   /\ ~TemplateOverlap(a))
                  => \/ a.phase \in {"Validated", "Committed"}
                     \/ a.phase = "Rejected" /\ a.reason = "provider_error"

\* The second attempt asked for a slot overlapping the first booking and was
\* rejected as slot_taken.
C26_Witness ==
    LET a == att["w1"]
    IN  /\ a.id = 2
        /\ ReadTheCalendar(a)
        /\ \E iv \in CommittedBefore(a) :
              SlotStart(a) < iv[2] /\ SlotEnd(a) > iv[1] /\ SlotStart(a) # iv[1]
        /\ a.phase = "Rejected"
        /\ a.reason = "slot_taken"

\* The second attempt asked for the slot that starts where the first booking
\* ends and was committed.
C26_WitnessBackToBack ==
    LET a == att["w1"]
    IN  /\ a.id = 2
        /\ \E iv \in CommittedBefore(a) : SlotStart(a) = iv[2]
        /\ a.phase = "Committed"

\* The attempt passed validation and reached the write step.
ReachedWrite(a) ==
    \/ a.phase \in {"Validated", "Committed"}
    \/ a.phase = "Rejected" /\ a.reason = "provider_error"

\* The view's day_slots show start_text as a bookable slot.
ShownBookable(ctx, start_text) ==
    \E i \in 1..Len(ctx.day_slots) :
        /\ ctx.day_slots[i].start_time = start_text
        /\ ctx.day_slots[i].bookable

\* The view ctx of the attempt's own business, service and date and the
\* attempt a1 after its validation agree.
ViewAgrees(ctx, a1) ==
    /\ ReachedWrite(a1) <=> ShownBookable(ctx, a1.form.slot_start)
    /\ \A i \in 1..Len(ctx.next_available_slots) :
          (ctx.next_available_slots[i].date = ctx.selected_date)
             => ShownBookable(ctx, ctx.next_available_slots[i].start_time)
    /\ \A k \in 1..7 :
          ctx.week_days[k].is_selected
             => /\ ctx.week_days[k].date = ctx.selected_date
                /\ ctx.week_days[k].available_count
                     = BookableCount(ctx.day_slots)
    /\ \E k \in 1..7 : ctx.week_days[k].is_selected

\* C27: against the same calendar state and the same outcome of the
\* provider read, a start is shown as bookable in day_slots by
\* _schedule_view_context (and so is every entry of next_available_slots on
\* the selected date) if and only if a booking attempt for the same
\* business, service, date and start passes validation and reaches the write
\* step; and the week strip's available_count for the selected date equals
\* the number of bookable entries of day_slots.
C27_ViewCommitConsistency ==
    \A w \in Workers :
        (result.done /\ result.value.id = att[w].id /\ att[w].loads = 1)
           => ViewAgrees(result.value.response.context, att[w])

\* An attempt was validated for a start the view shows as bookable, with an
\* event on the calendar that makes other slots of the day unbookable.
C27_Witness ==
    LET a == att["w1"]
    IN  /\ result.done
        /\ result.value.id = a.id
        /\ a.phase = "Validated"
        /\ a.loads = 1
        /\ a.busy # <<>>
        /\ a.chosen # <<>>

\* An attempt was rejected for a start the view shows as taken.
C27_WitnessTaken ==
    LET a == att["w1"]
    IN  /\ result.done
        /\ result.value.id = a.id
        /\ a.phase = "Rejected"
        /\ a.reason = "slot_taken"
        /\ a.loads = 1

\* No slot of the list is marked as conflicting with the user's calendar.
NoUserConflict(slots) ==
    \A i \in 1..Len(slots) :
        slots[i].user_free /\ slots[i].reason \notin {"user_busy", "both_busy"}

\* C28: for a list of user busy periods with start < end and any date,
\* _build_business_day_slots given _busy_periods_for_day(periods, date)
\* returns exactly the slots it returns given the unclipped periods; a
\* period ending at 00:00 of the date creates no conflict on that date, and
\* every clipped period lies within [date 00:00, next day 00:00].
C28_ClippingPreservesSlots ==
    result.done =>
        LET day_start == Combine(probe.date, 0)
            day_end == day_start + MinutesPerDay
            clipped == result.value.clipped
        IN  /\ result.value.with = result.value.without
            /\ \A i \in 1..Len(clipped) :
                  /\ day_start <= clipped[i][1]
                  /\ clipped[i][1] < clipped[i][2]
                  /\ clipped[i][2] <= day_end
            /\ (\A i \in 1..Len(probe.periods) :
                   probe.periods[i][2] <= day_start)
                  => /\ clipped = <<>>
                     /\ NoUserConflict(result.value.with)

\* A period that began the evening before was clipped to the day, and a
\* slot of the day conflicts with it.
C28_Witness ==
    /\ result.done
    /\ \E i \in 1..Len(probe.periods) :
          probe.periods[i][1] < Combine(probe.date, 0)
    /\ \E i \in 1..Len(result.value.clipped) :
          result.value.clipped[i][1] = Combine(probe.date, 0)
    /\ \E i \in 1..Len(result.value.with) :
          ~result.value.with[i].user_free
    /\ \E i \in 1..Len(result.value.with) :
          result.value.with[i].user_free

\* The all-day event of the day before was the only period and the day has
\* slots.
C28_WitnessAllDayBefore ==
    /\ result.done
    /\ probe.periods = <<<<Combine(probe.date - 1, 0), Combine(probe.date, 0)>>>>
    /\ result.value.with # <<>>

\* The starts, in minutes after midnight, on the quarter-hour cadence from
\* opening whose slot of the duration ends by closing.
CadenceStarts(opening, closing, duration) ==
    {opening + SlotStep * k : k \in 0..(MinutesPerDay \div SlotStep)}
        \cap {m \in 0..MinutesPerDay : m + duration <= closing}

\* The slots start at opening, opening + 15, ... without a gap, and their
\* starts are exactly the starts of expected.
EnumeratesExactly(slots, opening, expected) ==
    /\ Len(slots) = Cardinality(expected)
    /\ \A i \in 1..Len(slots) :
          /\ ClockOf(slots[i].start_time) = opening + SlotStep * (i - 1)
          /\ ClockOf(slots[i].start_time) \in expected
    /\ \A i, j \in 1..Len(slots) :
          (i < j) => /\ ClockOf(slots[i].start_time) < ClockOf(slots[j].start_time)
                     /\ slots[i].start_time # slots[j].start_time
    /\ \A i \in 1..Len(slots) :
          ChosenSlot(slots, slots[i].start_time) = <<slots[i]>>

\* C29: for an open day, _build_business_day_slots returns slots whose
\* starts are opening, opening + 15 min, ... in strictly increasing order
\* without duplicates, with every start on that cadence for which start +
\* duration <= closing and no other; the lookup by start_time matches at
\* most one slot, and a window shorter than the duration yields no slots.
C29_SlotEnumerationExact ==
    (result.done /\ Weekday(probe.date) \in probe.business.open_weekdays)
       => /\ EnumeratesExactly(
                 result.value,
                 ClockOf(probe.service.time_range.start),
                 CadenceStarts(ClockOf(probe.service.time_range.start),
                               ClockOf(probe.service.time_range.end),
                               probe.service.duration))
          /\ (ClockOf(probe.service.time_range.end)
                 - ClockOf(probe.service.time_range.start)
                 < probe.service.duration)
                => result.value = <<>>

\* A window that the duration does not divide: the last slot ends before
\* the window closes and the next start on the cadence would not fit.
C29_Witness ==
    /\ result.done
    /\ Len(result.value) >= 2
    /\ ClockOf(result.value[Len(result.value)].end_time)
           < ClockOf(probe.service.time_range.end)

\* An open day and a window shorter than the duration: no slots.
C29_WitnessShortWindow ==
    /\ result.done
    /\ Weekday(probe.date) \in probe.business.open_weekdays
    /\ ClockOf(probe.service.time_range.start)
           < ClockOf(probe.service.time_range.end)
    /\ result.value = <<>>

\* C30: in both views the period start is a Monday (week view) or the first
\* of a month (month view); _home_neighbor_start with step +1 followed by
\* step -1, and -1 followed by +1, returns the original period start, also
\* from December to January and back, and the next period's start equals
\* the current period's exclusive end.
C30_NavigationReversible ==
    result.done =>
        LET nav == result.value
        IN  /\ nav.selected_view \in {"week", "month"}
            /\ (nav.selected_view = "week") => Weekday(nav.period_start) = 0
            /\ (nav.selected_view = "month") => DayOfMonth(nav.period_start) = 1
            /\ nav.next_then_prev = nav.period_start
            /\ nav.prev_then_next = nav.period_start
            /\ nav.next_start = nav.period_end_exclusive
            /\ nav.prev_start < nav.period_start
            /\ nav.period_start < nav.next_start
            /\ _home_period_end_exclusive(nav.selected_view, nav.prev_start)
                   = nav.period_start

\* The month view of a December: the next period is January of the year
\* after.
C30_Witness ==
    /\ result.done
    /\ result.value.selected_view = "month"
    /\ MonthOf(result.value.period_start) = 12
    /\ MonthOf(result.value.next_start) = 1
    /\ YearOf(result.value.next_start) = YearOf(result.value.period_start) + 1

\* The week view of a week that holds a new year's day.
C30_WitnessWeek ==
    /\ result.done
    /\ result.value.selected_view = "week"
    /\ probe.view # "week"
    /\ YearOf(result.value.next_start) > YearOf(result.value.period_start)

====
